---------------------------- MODULE Spec2Model ----------------------------
(***************************************************************************)
(* A model of moflow's MODFLOW input reader (moflow/mf/reader.py) and of   *)
(* the unit registry it resolves foreign sources through                   *)
(* (moflow/mf/name.py).  Records are real strings; the string helpers      *)
(* below compute what the Python string methods used by the reader         *)
(* compute, character by character.                                        *)
(*                                                                         *)
(* Numbers: a numeric value is an exact decimal [m, e] standing for        *)
(* m / 10^e (normalised, so equal values are equal records).  numpy's      *)
(* float32 rounding is not modelled: a product is the exact product.       *)
(* The numeric parsers accept [sign]digits[.digits] and [sign].digits;     *)
(* exponents, "inf" and "nan" do not occur in the inputs of the model.     *)
(***************************************************************************)
EXTENDS Integers, Sequences, FiniteSets, TLC

(***************************************************************************)
(* Bounds of the model.                                                    *)
(***************************************************************************)
\* largest element count of a requested array shape
MaxSize == 3
\* largest num_items passed to get_items
MaxItems == 3

(***************************************************************************)
(* Python string primitives.                                               *)
(***************************************************************************)
Min(a, b) == IF a < b THEN a ELSE b

\* the character at 0-based index i, "" past the end of the string
CharAt(s, i) == IF i < Len(s) THEN SubSeq(s, i + 1, i + 1) ELSE ""

\* Python's s[a:b] for 0 <= a <= b: clipped to the string, never raises
Slice(s, a, b) == SubSeq(s, Min(a, Len(s)) + 1, Min(b, Len(s)))

\* str.isspace for one character
IsSpace(c) == c \in {" ", "\t", "\n", "\r"}

IsDigit(c) == c \in {"0", "1", "2", "3", "4", "5", "6", "7", "8", "9"}

DigitVal(c) ==
    CASE c = "0" -> 0 [] c = "1" -> 1 [] c = "2" -> 2 [] c = "3" -> 3
      [] c = "4" -> 4 [] c = "5" -> 5 [] c = "6" -> 6 [] c = "7" -> 7
      [] c = "8" -> 8 [] c = "9" -> 9

LowerLetters == "abcdefghijklmnopqrstuvwxyz"

UpperLetters == "ABCDEFGHIJKLMNOPQRSTUVWXYZ"

\* the upper-case letter of each lower-case letter
UpperOf ==
    [c \in {SubSeq(LowerLetters, i, i) : i \in 1..Len(LowerLetters)} |->
        LET i == CHOOSE j \in 1..Len(LowerLetters) : SubSeq(LowerLetters, j, j) = c
        IN  SubSeq(UpperLetters, i, i)]

\* str.upper for one character
UpperChar(c) == IF c \in DOMAIN UpperOf THEN UpperOf[c] ELSE c

RECURSIVE Upper(_)
\* str.upper
Upper(s) == IF s = "" THEN "" ELSE UpperChar(CharAt(s, 0)) \o Upper(Tail(s))

\* the lower-case letter of each upper-case letter
LowerOf ==
    [c \in {SubSeq(UpperLetters, i, i) : i \in 1..Len(UpperLetters)} |->
        LET i == CHOOSE j \in 1..Len(UpperLetters) : SubSeq(UpperLetters, j, j) = c
        IN  SubSeq(LowerLetters, i, i)]

\* str.lower for one character
LowerChar(c) == IF c \in DOMAIN LowerOf THEN LowerOf[c] ELSE c

RECURSIVE Lower(_)
\* str.lower
Lower(s) == IF s = "" THEN "" ELSE LowerChar(CharAt(s, 0)) \o Lower(Tail(s))

RECURSIVE LStrip(_)
\* str.lstrip
LStrip(s) == IF s # "" /\ IsSpace(CharAt(s, 0)) THEN LStrip(Tail(s)) ELSE s

RECURSIVE RStrip(_)
\* str.rstrip
RStrip(s) ==
    IF s # "" /\ IsSpace(CharAt(s, Len(s) - 1))
    THEN RStrip(SubSeq(s, 1, Len(s) - 1))
    ELSE s

\* str.strip
Strip(s) == RStrip(LStrip(s))

RECURSIVE TokenEnd(_, _)
\* index just past the run of non-blank characters that starts at i
TokenEnd(s, i) ==
    IF i < Len(s) /\ ~IsSpace(CharAt(s, i)) THEN TokenEnd(s, i + 1) ELSE i

RECURSIVE SplitFrom(_, _)
SplitFrom(s, i) ==
    IF i >= Len(s) THEN <<>>
    ELSE IF IsSpace(CharAt(s, i)) THEN SplitFrom(s, i + 1)
    ELSE LET j == TokenEnd(s, i)
         IN  <<Slice(s, i, j)>> \o SplitFrom(s, j)

\* str.split(): the maximal runs of non-blank characters, in order
Split(s) == SplitFrom(s, 0)

\* str.startswith
StartsWith(s, p) == Len(s) >= Len(p) /\ SubSeq(s, 1, Len(p)) = p

\* "c in s" for one character c
HasChar(s, c) == \E i \in 0..(Len(s) - 1) : CharAt(s, i) = c

RECURSIVE FindFrom(_, _, _)
\* str.find(c, i) for one character c: the first index from i on, or -1
FindFrom(s, c, i) ==
    IF i >= Len(s) THEN -1
    ELSE IF CharAt(s, i) = c THEN i
    ELSE FindFrom(s, c, i + 1)

\* str.find for one character c: the first index, or -1
FindChar(s, c) == FindFrom(s, c, 0)

RECURSIVE FindSub(_, _, _)
\* str.find(sub, i) for a non-empty sub: the first index from i on where
\* sub starts, or -1; a negative i counts from the end of the string
FindSub(s, sub, i) ==
    IF i < 0 THEN FindSub(s, sub, IF Len(s) + i < 0 THEN 0 ELSE Len(s) + i)
    ELSE IF i + Len(sub) > Len(s) THEN -1
    ELSE IF SubSeq(s, i + 1, i + Len(sub)) = sub THEN i
    ELSE FindSub(s, sub, i + 1)

RECURSIVE DigitsEnd(_, _)
\* index just past the run of digits that starts at i (a greedy \d*)
DigitsEnd(s, i) ==
    IF i < Len(s) /\ IsDigit(CharAt(s, i)) THEN DigitsEnd(s, i + 1) ELSE i

RECURSIVE NatVal(_)
\* the value of a string of digits
NatVal(s) ==
    IF s = "" THEN 0
    ELSE IF Len(s) = 1 THEN DigitVal(s)
    ELSE 10 * NatVal(SubSeq(s, 1, Len(s) - 1)) + DigitVal(CharAt(s, Len(s) - 1))

AllDigits(s) == s # "" /\ \A i \in 0..(Len(s) - 1) : IsDigit(CharAt(s, i))


(***************************************************************************)
(* Numbers and conversions.                                                *)
(***************************************************************************)
RECURSIVE Norm(_, _)
\* the decimal m / 10^e without trailing zeros in its fraction
Norm(m, e) == IF e > 0 /\ m % 10 = 0 THEN Norm(m \div 10, e - 1) ELSE [m |-> m, e |-> e]

Num(n) == [m |-> n, e |-> 0]

\* the product of two decimals
Times(a, b) == Norm(a.m * b.m, a.e + b.e)

\* a numeric token without its sign
Unsigned(s) == IF CharAt(s, 0) \in {"+", "-"} THEN Tail(s) ELSE s

Sign(s) == IF CharAt(s, 0) = "-" THEN -1 ELSE 1

\* int(s) succeeds: blanks around an optional sign and digits
IntOk(s) == AllDigits(Unsigned(Strip(s)))

\* int(s)
IntVal(s) == Sign(Strip(s)) * NatVal(Unsigned(Strip(s)))

\* float(s) succeeds: [sign]digits[.[digits]] or [sign].digits
FloatOk(s) ==
    LET u == Unsigned(Strip(s))
        p == FindChar(u, ".")
    IN  IF p = -1 THEN AllDigits(u)
        ELSE LET ip == Slice(u, 0, p)
                 fp == Slice(u, p + 1, Len(u))
             IN  /\ ip = "" \/ AllDigits(ip)
                 /\ fp = "" \/ AllDigits(fp)
                 /\ ip # "" \/ fp # ""

\* float(s) as an exact decimal
FloatVal(s) ==
    LET t == Strip(s)
        u == Unsigned(t)
        p == FindChar(u, ".")
    IN  IF p = -1 THEN Num(Sign(t) * NatVal(u))
        ELSE LET digits == Slice(u, 0, p) \o Slice(u, p + 1, Len(u))
             IN  Norm(Sign(t) * NatVal(digits), Len(u) - p - 1)

\* num_type(s) succeeds, for dtype "i" (int32) or "f" (float32)
NumOk(s, dtype) == IF dtype = "i" THEN IntOk(s) ELSE FloatOk(s)

\* num_type(s): np.dtype(dtype).type(s)
NumVal(s, dtype) == IF dtype = "i" THEN Num(IntVal(s)) ELSE FloatVal(s)

\* ar.dtype.itemsize of "f" and of "i"
ItemSize == 4

(***************************************************************************)
(* The Fortran format pattern _re_fmtin.                                   *)
(***************************************************************************)
NoMatch == [ok |-> FALSE, body |-> "", rep |-> "", w |-> ""]

\* _re_fmtin matched with its "(" at index i
FmtMatchAt(s, i) ==
    LET j  == i + 1
        r  == DigitsEnd(s, j)
        k0 == r + 1
        k  == IF CharAt(s, k0) \in {"S", "N"} THEN k0 + 1 ELSE k0
        w  == DigitsEnd(s, k)
        d  == DigitsEnd(s, w + 1)
        close ==
            IF CharAt(s, w) = "." /\ d > w + 1 /\ CharAt(s, d) = ")" THEN d
            ELSE IF CharAt(s, w) = ")" THEN w
            ELSE -1
    IN  IF CharAt(s, i) # "(" THEN NoMatch
        ELSE IF CharAt(s, r) \in {"I", "E", "F", "G"} /\ w > k /\ close # -1
        THEN [ok |-> TRUE, body |-> Slice(s, j, close),
              rep |-> Slice(s, j, r), w |-> Slice(s, k, w)]
        ELSE IF Slice(s, j, j + 5) = "FREE)"
        THEN [ok |-> TRUE, body |-> "FREE", rep |-> "", w |-> ""]
        ELSE IF Slice(s, j, j + 7) = "BINARY)"
        THEN [ok |-> TRUE, body |-> "BINARY", rep |-> "", w |-> ""]
        ELSE NoMatch

RECURSIVE FmtSearch(_, _)
\* the first match with its "(" at index i or later
FmtSearch(s, i) ==
    IF i >= Len(s) THEN NoMatch
    ELSE IF FmtMatchAt(s, i).ok THEN FmtMatchAt(s, i)
    ELSE FmtSearch(s, i + 1)

\* _re_fmtin.search(s): the leftmost match
ReFmtin(s) == FmtSearch(s, 0)

(***************************************************************************)
(* Sources a payload can be read from.  A source is a record               *)
(*   [kind, data, extra, pos]                                              *)
(* kind "self"   the MFFileReader: data = its lines, pos = its lineno      *)
(* kind "text"   an io.StringIO: data = its text, pos = a character index  *)
(* kind "tbytes" a byte stream holding text (a file opened "rb")           *)
(* kind "bytes"  a byte stream holding packed array elements: data = the   *)
(*               elements, extra = stray bytes after the last whole        *)
(*               element, pos = a byte offset                              *)
(* kind "pkg"    an MFPackage: a read() that raises NotImplementedError,   *)
(*               no readline                                               *)
(* kind "data"   an MFData: neither read nor readline                      *)
(* Packed bytes read as text, and text bytes read as packed elements,      *)
(* depend on the byte values and are not modelled (outcome "unmodelled",   *)
(* which no input of the model produces).                                  *)
(***************************************************************************)
Source(kind, data, extra, pos) ==
    [kind |-> kind, data |-> data, extra |-> extra, pos |-> pos]

\* an exception-free outcome carries exc = "none"; a loop that never ends
\* carries exc = "hang"
Outcome(exc, msg) == [exc |-> exc, msg |-> msg]

Ok == Outcome("none", "")

\* nextline without "self.lineno -= 1" in its except clause: a failed read
\* leaves the cursor one past where it was
nextlineNoRestore(lines, lineno) ==
    IF lineno + 1 <= Len(lines)
    THEN [out |-> [exc |-> "none", msg |-> ""], line |-> lines[lineno + 1],
          lineno |-> lineno + 1]
    ELSE [out |-> [exc |-> "IndexError", msg |-> "Unexpected end of file"],
          line |-> "", lineno |-> lineno + 1]

\* MFFileReader.nextline on the cursor (lines, lineno): the line and the
\* new lineno, or IndexError with lineno restored
nextline(lines, lineno) ==
    IF lineno + 1 <= Len(lines)
    THEN [out |-> Ok, line |-> lines[lineno + 1], lineno |-> lineno + 1]
    ELSE [out |-> Outcome("IndexError", "Unexpected end of file"),
          line |-> "", lineno |-> lineno]

\* index just past the line that starts at character i of text t
RECURSIVE LineEnd(_, _)
LineEnd(t, i) ==
    IF i >= Len(t) THEN Len(t)
    ELSE IF CharAt(t, i) = "\n" THEN i + 1
    ELSE LineEnd(t, i + 1)

\* obj.readline(): MFFileReader.readline is nextline; a stream returns the
\* text up to and including the next newline, "" at its end
readline(obj) ==
    IF obj.kind = "self"
    THEN LET r == nextline(obj.data, obj.pos)
         IN  [out |-> r.out, line |-> r.line, obj |-> [obj EXCEPT !.pos = r.lineno]]
    ELSE LET e == LineEnd(obj.data, obj.pos)
         IN  [out |-> Ok, line |-> Slice(obj.data, obj.pos, e),
              obj |-> [obj EXCEPT !.pos = e]]

\* whether readline() can still return a non-empty line
AtEnd(obj) == obj.pos >= Len(obj.data)

RECURSIVE FortranFieldsKeepBlank(_, _, _, _)
\* FortranFields without "if item:": a blank field is appended as an empty
\* token
FortranFieldsKeepBlank(line, pos, rep, width) ==
    IF rep <= 0 THEN <<>>
    ELSE <<Strip(Slice(line, pos, pos + width))>>
             \o FortranFieldsKeepBlank(line, pos + width, rep - 1, width)

RECURSIVE FortranFields(_, _, _, _)
\* the loop "for n in range(rep)" over one line: the non-blank stripped
\* slices line[pos : pos + width], pos advancing by width each time
FortranFields(line, pos, rep, width) ==
    IF rep <= 0 THEN <<>>
    ELSE LET item == Strip(Slice(line, pos, pos + width))
         IN  (IF item # "" THEN <<item>> ELSE <<>>)
                 \o FortranFields(line, pos + width, rep - 1, width)

\* the tokens one payload line contributes under format fmt
LineItems(line, fmt) ==
    IF fmt.body = "FREE" THEN Split(line)
    ELSE FortranFields(line, 0,
                       IF fmt.rep # "" THEN NatVal(fmt.rep) ELSE 1,
                       NatVal(fmt.w))

RECURSIVE Collect(_, _, _, _)
\* the loops "while len(items) < num_items: ... obj.readline() ...".
\* Past the end of a stream readline() returns "" for ever, which adds no
\* item: the loop does not end.
Collect(obj, fmt, items, num_items) ==
    IF Len(items) >= num_items THEN [out |-> Ok, items |-> items, obj |-> obj]
    ELSE IF obj.kind # "self" /\ AtEnd(obj)
    THEN [out |-> Outcome("hang", "readline at end of stream"),
          items |-> items, obj |-> obj]
    ELSE LET r == readline(obj)
         IN  IF r.out.exc # "none"
             THEN [out |-> r.out, items |-> items, obj |-> r.obj]
             ELSE Collect(r.obj, fmt, items \o LineItems(r.line, fmt), num_items)

\* obj.read(data_size) on a stream of packed elements: the bytes read
BytesRead(obj, data_size) ==
    Min(data_size, Len(obj.data) * ItemSize + obj.extra - obj.pos)

\* what read_array_data returns or raises: the outcome, the flat array
\* iar, the tokens collected, the format body and the source afterwards
ReadResult(out, iar, items, body, obj) ==
    [out |-> out, iar |-> iar, items |-> items, body |-> body, obj |-> obj]

\* np.frombuffer(data, dtype) and the size check, for the got bytes that
\* obj.read returned from a stream of packed elements
FromBuffer(obj, got, num_items) ==
    IF got % ItemSize # 0
    THEN ReadResult(Outcome("ValueError", "buffer size"), <<>>, <<>>, "BINARY",
                    [obj EXCEPT !.pos = obj.pos + got])
    ELSE ReadResult(IF got \div ItemSize # num_items
                    THEN Outcome("ValueError", "expected size") ELSE Ok,
                    SubSeq(obj.data, obj.pos \div ItemSize + 1,
                           (obj.pos + got) \div ItemSize),
                    <<>>, "BINARY", [obj EXCEPT !.pos = obj.pos + got])

\* the BINARY branch of read_array_data
ReadBinary(obj, num_items) ==
    IF obj.kind \in {"self", "data"}
    THEN ReadResult(Outcome("NotImplementedError", "not sure how to 'read'"),
                    <<>>, <<>>, "BINARY", obj)
    ELSE IF obj.kind = "pkg"
    THEN ReadResult(Outcome("NotImplementedError", "'read' not implemented"),
                    <<>>, <<>>, "BINARY", obj)
    ELSE IF obj.kind = "text"
    THEN ReadResult(Outcome("TypeError", "frombuffer of str"), <<>>, <<>>, "BINARY",
                    [obj EXCEPT !.pos =
                        Min(obj.pos + num_items * ItemSize, Len(obj.data))])
    ELSE IF obj.kind = "tbytes"
    THEN ReadResult(Outcome("unmodelled", "text bytes as elements"),
                    <<>>, <<>>, "BINARY", obj)
    ELSE FromBuffer(obj, BytesRead(obj, num_items * ItemSize), num_items)

\* np.fromiter(items, dtype) and the size check, for the result c of the
\* collecting loop
FromIter(c, body, num_items, dtype) ==
    IF c.out.exc # "none" THEN ReadResult(c.out, <<>>, c.items, body, c.obj)
    ELSE IF \E i \in 1..Len(c.items) : ~NumOk(c.items[i], dtype)
    THEN ReadResult(Outcome("ValueError", "conversion"), <<>>, c.items, body, c.obj)
    ELSE ReadResult(IF Len(c.items) # num_items
                    THEN Outcome("ValueError", "expected size") ELSE Ok,
                    [i \in 1..Len(c.items) |-> NumVal(c.items[i], dtype)],
                    c.items, body, c.obj)

\* read_array_data once fmtin has been matched against _re_fmtin
ReadFormatted(obj, fmt, num_items, dtype) ==
    IF ~fmt.ok
    THEN ReadResult(Outcome("ValueError", "cannot understand Fortran format"),
                    <<>>, <<>>, "", obj)
    ELSE IF fmt.body = "BINARY" THEN ReadBinary(obj, num_items)
    ELSE IF obj.kind \in {"pkg", "data"}
    THEN ReadResult(Outcome("NotImplementedError", "not sure how to 'readline'"),
                    <<>>, <<>>, fmt.body, obj)
    ELSE IF obj.kind = "bytes"
    THEN ReadResult(Outcome("unmodelled", "elements as text"), <<>>, <<>>, fmt.body, obj)
    ELSE FromIter(Collect(obj, fmt, <<>>, num_items), fmt.body, num_items, dtype)

\* the inner function read_array_data(obj, fmtin) of get_array, for an
\* array of num_items elements of type dtype
read_array_data(obj, fmtin, num_items, dtype) ==
    ReadFormatted(obj, ReFmtin(Upper(fmtin)), num_items, dtype)

(***************************************************************************)
(* get_array.                                                              *)
(***************************************************************************)
\* the module-level h5py: None when the import failed
h5py == FALSE

RECURSIVE Product(_)
\* ar.size of np.empty(shape)
Product(shape) == IF shape = <<>> THEN 1 ELSE Head(shape) * Product(Tail(shape))

\* Scaled without the multiplication: "ar[:] = iar.reshape(shape)"
Unscaled(iar, c) == iar

\* iar.reshape(shape) * num_type(cnstnt), kept flat in row-major order
Scaled(iar, c) == [i \in 1..Len(iar) |-> Times(iar[i], c)]

\* Filled without the fill: np.empty's array left as allocated (zeros)
Unfilled(num_items, c) == [i \in 1..num_items |-> Num(0)]

\* ar.fill(cnstnt)
Filled(num_items, c) == [i \in 1..num_items |-> c]

\* abs(locat)
Abs(n) == IF n < 0 THEN -n ELSE n

\* FixedSource without "self.parent.nunit == nunit": every unit, the
\* package's own included, is looked up in the registry
FixedSourceUnitOnly(locat, own_unit, has_nam) ==
    IF ~has_nam THEN "self" ELSE "unit"

\* the source get_array hands to read_array_data for a fixed-format line
\* with LOCAT # 0: the reader itself or the registry entry of abs(LOCAT)
FixedSource(locat, own_unit, has_nam) ==
    IF own_unit = Abs(locat) \/ ~has_nam THEN "self" ELSE "unit"

\* FixedFormat without "if locat < 0: fmtin = '(BINARY)'"
FixedFormatAsWritten(locat, fmtin) == fmtin

\* the format a fixed-format line with LOCAT # 0 is read with
FixedFormat(locat, fmtin) == IF locat < 0 THEN "(BINARY)" ELSE fmtin

\* WithOpen as "fp = open(fname, 'rb'); ...; fp.close()" would be: the
\* file is closed only when the body returns
WithoutClose(fname, out) == IF out.exc = "none" THEN {} ELSE {fname}

\* what is left open of a file opened by "with open(fname, 'rb') as fp"
\* around a body that ended with outcome out: the with statement closes
\* fp when the body returns or raises; a body that never ends keeps it
WithOpen(fname, out) == IF out.exc = "hang" THEN {fname} ELSE {}

\* res["text"] as a record: whether the key is set, and its value
\* "first_line[st:].strip()"
TextFrom(first_line, st) ==
    [has |-> TRUE, text |-> Strip(Slice(first_line, st, Len(first_line)))]

\* the text after the first "#" of the control line, when it has one
HashText(first_line) ==
    IF HasChar(first_line, "#")
    THEN TextFrom(first_line, FindChar(first_line, "#") + 1)
    ELSE [has |-> FALSE, text |-> ""]

\* "st = first_line.find(iprn, first_line.find(fmtin)) + len(iprn)" and the
\* text from there on
KeywordText(first_line, fmtin, iprn) ==
    TextFrom(first_line,
             FindSub(first_line, iprn, FindSub(first_line, fmtin, 0)) + Len(iprn))

\* the text each branch of get_array takes from its own control line: what
\* follows CNSTNT (CONSTANT) or IPRN (INTERNAL, EXTERNAL, OPEN/CLOSE) when
\* the line has more tokens, or columns 51 on of a fixed-format line
EncodingText(first_line, dat, cntrl) ==
    IF cntrl = "CONSTANT"
    THEN IF Len(dat) > 2
         THEN TextFrom(first_line, FindSub(first_line, dat[2], 0) + Len(dat[2]))
         ELSE [has |-> FALSE, text |-> ""]
    ELSE IF cntrl = "INTERNAL"
    THEN IF Len(dat) > 4 THEN KeywordText(first_line, dat[3], dat[4])
         ELSE [has |-> FALSE, text |-> ""]
    ELSE IF cntrl \in {"EXTERNAL", "OPEN/CLOSE"}
    THEN IF Len(dat) > 5 THEN KeywordText(first_line, Upper(dat[4]), dat[5])
         ELSE [has |-> FALSE, text |-> ""]
    ELSE IF cntrl # "HDF5" /\ Len(first_line) > 50 THEN TextFrom(first_line, 50)
    ELSE [has |-> FALSE, text |-> ""]

\* ArrayText without the tests '"text" not in res': the text of the branch
\* replaces the text after "#"
ArrayTextOverridden(first_line, dat) ==
    IF EncodingText(first_line, dat, Upper(dat[1])).has
    THEN EncodingText(first_line, dat, Upper(dat[1]))
    ELSE HashText(first_line)

\* res["text"] of a get_array call that returns: the text after "#" is set
\* first, and a branch sets its own text only if '"text" not in res'
ArrayText(first_line, dat) ==
    IF HashText(first_line).has THEN HashText(first_line)
    ELSE EncodingText(first_line, dat, Upper(dat[1]))

\* What a get_array call leaves behind: the outcome, the returned dict
\* (array, text, cntrl, cnstnt, fmtin, locat, nunit as unit, fname), the reader's
\* lineno and the registry nam afterwards, the source the payload was asked
\* of (src: "none", "self", "unit" or "file"), the format body it was read
\* with, the tokens collected, the files opened and those still open, the
\* outcome of read_array_data (read) with the flat array it returned (iar),
\* and the payload source before (from) and after (obj) the read.
\* This is the call just after nextline returned: nothing read but the
\* control line.
Base(lineno, nam) ==
    [out |-> Ok, array |-> <<>>, lineno |-> lineno, nam |-> nam,
     text |-> [has |-> FALSE, text |-> ""],
     cntrl |-> "", cnstnt |-> "", fmtin |-> "", locat |-> 0,
     src |-> "none", unit |-> 0, fname |-> "", body |-> "",
     items |-> <<>>, opened |-> {}, open |-> {},
     read |-> Outcome("not called", ""), iar |-> <<>>,
     from |-> Source("none", "", 0, 0), obj |-> Source("none", "", 0, 0)]

Raise(b, exc, msg) == [b EXCEPT !.out = Outcome(exc, msg)]

\* ar.fill(cnstnt)
Fill(b, num_items, dtype) ==
    IF ~NumOk(b.cnstnt, dtype) THEN Raise(b, "ValueError", "conversion")
    ELSE [b EXCEPT !.array = Filled(num_items, NumVal(b.cnstnt, dtype))]

\* AfterRead for a registry object whose position is lost after the read,
\* as if the source were rewound
AfterReadRewound(b, r) ==
    [b EXCEPT !.body = r.body, !.items = r.items,
              !.read = r.out, !.iar = r.iar, !.obj = r.obj,
              !.lineno = IF b.src = "self" THEN r.obj.pos ELSE @,
              !.opened = IF b.src = "file" THEN {b.fname} ELSE @,
              !.open = IF b.src = "file" THEN WithOpen(b.fname, r.out) ELSE @]

\* the state a payload read r leaves behind: the reader's own cursor, the
\* registry entry or the scoped file, whichever b.src names
AfterRead(b, r) ==
    [b EXCEPT !.body = r.body, !.items = r.items,
              !.read = r.out, !.iar = r.iar, !.obj = r.obj,
              !.lineno = IF b.src = "self" THEN r.obj.pos ELSE @,
              !.nam = IF b.src = "unit" THEN [@ EXCEPT ![b.unit] = r.obj] ELSE @,
              !.opened = IF b.src = "file" THEN {b.fname} ELSE @,
              !.open = IF b.src = "file" THEN WithOpen(b.fname, r.out) ELSE @]

\* "iar = read_array_data(obj, fmtin)" then
\* "ar[:] = iar.reshape(shape) * num_type(cnstnt)", r being the read
Finish(b, r, dtype) ==
    IF r.out.exc # "none" THEN Raise(AfterRead(b, r), r.out.exc, r.out.msg)
    ELSE IF ~NumOk(b.cnstnt, dtype)
    THEN Raise(AfterRead(b, r), "ValueError", "conversion")
    ELSE [AfterRead(b, r) EXCEPT !.array = Scaled(r.iar, NumVal(b.cnstnt, dtype))]

\* the CONSTANT branch
Constant(b, dat, num_items, dtype) ==
    IF Len(dat) < 2
    THEN Raise(b, "ValueError", "expecting to find at least 2 items")
    ELSE Fill([b EXCEPT !.cnstnt = dat[2]], num_items, dtype)

\* the INTERNAL branch
Internal(b, dat, self, num_items, dtype) ==
    IF Len(dat) < 3
    THEN Raise(b, "ValueError", "expecting to find at least 3 items")
    ELSE Finish([b EXCEPT !.cnstnt = dat[2], !.fmtin = dat[3], !.src = "self",
                          !.from = self],
                read_array_data(self, dat[3], num_items, dtype), dtype)

\* ExternalSource as "obj = self": the payload taken from the reader itself
ExternalFromSelf(self, nam, nunit) == self

\* "obj = self.parent.nam[nunit]" for a unit bound in the registry
ExternalSource(self, nam, nunit) == nam[nunit]

\* the EXTERNAL branch
External(b, dat, self, has_nam, num_items, dtype) ==
    IF Len(dat) < 5
    THEN Raise(b, "ValueError", "expecting to find at least 5 items")
    ELSE IF ~IntOk(dat[2]) THEN Raise(b, "ValueError", "conversion")
    ELSE IF ~has_nam
    THEN Raise(b, "AttributeError", "reference to 'nam' required")
    ELSE IF IntVal(dat[2]) \notin DOMAIN b.nam
    THEN Raise([b EXCEPT !.unit = IntVal(dat[2])], "KeyError", "nunit not in nam")
    ELSE Finish([b EXCEPT !.unit = IntVal(dat[2]), !.cnstnt = dat[3],
                          !.fmtin = Upper(dat[4]), !.src = "unit",
                          !.from = b.nam[IntVal(dat[2])]],
                read_array_data(ExternalSource(self, b.nam, IntVal(dat[2])),
                                Upper(dat[4]), num_items, dtype),
                dtype)

\* the OPEN/CLOSE branch
OpenClose(b, dat, files, num_items, dtype) ==
    IF Len(dat) < 5
    THEN Raise(b, "ValueError", "expecting to find at least 5 items")
    ELSE IF dat[2] \notin DOMAIN files
    THEN Raise([b EXCEPT !.fname = dat[2]], "FileNotFoundError", "open")
    ELSE Finish([b EXCEPT !.fname = dat[2], !.cnstnt = dat[3],
                          !.fmtin = Upper(dat[4]), !.src = "file",
                          !.from = files[dat[2]]],
                read_array_data(files[dat[2]], Upper(dat[4]), num_items, dtype),
                dtype)

\* the HDF5 branch
Hdf5(b) ==
    IF ~h5py THEN Raise(b, "ImportError", "h5py module required")
    ELSE Raise(b, "unmodelled", "HDF5")

\* the fixed-format branch once LOCAT, CNSTNT and FMTIN are cut out of
\* the control line (b.locat, b.cnstnt, b.fmtin)
FixedRead(b, self, own_unit, has_nam, num_items, dtype) ==
    IF b.locat = 0 THEN Fill(b, num_items, dtype)
    ELSE IF FixedSource(b.locat, own_unit, has_nam) = "self"
    THEN Finish([b EXCEPT !.src = "self", !.unit = Abs(b.locat), !.from = self],
                read_array_data(self, FixedFormat(b.locat, b.fmtin), num_items, dtype),
                dtype)
    ELSE IF Abs(b.locat) \notin DOMAIN b.nam
    THEN Raise([b EXCEPT !.unit = Abs(b.locat)], "KeyError", "nunit")
    ELSE Finish([b EXCEPT !.src = "unit", !.unit = Abs(b.locat),
                          !.from = b.nam[Abs(b.locat)]],
                read_array_data(b.nam[Abs(b.locat)], FixedFormat(b.locat, b.fmtin),
                                num_items, dtype),
                dtype)

\* the fixed-format branch: LOCAT in columns 1-10, CNSTNT in 11-20, FMTIN
\* in 21-40
Fixed(b, control_line, self, own_unit, has_nam, num_items, dtype) ==
    IF ~IntOk(Slice(control_line, 0, 10))
    THEN Raise(b, "ValueError", "fixed-format control line not understood")
    ELSE FixedRead([b EXCEPT !.locat = IntVal(Slice(control_line, 0, 10)),
                             !.cnstnt = Strip(Slice(control_line, 10, 20)),
                             !.fmtin = Upper(Strip(Slice(control_line, 20, 40)))],
                   self, own_unit, has_nam, num_items, dtype)

\* the dispatch on the control word cntrl = dat[0].upper()
Control(cntrl, b, control_line, dat, self, own_unit, has_nam, files, num_items, dtype) ==
    IF cntrl = "CONSTANT"
    THEN Constant([b EXCEPT !.cntrl = cntrl], dat, num_items, dtype)
    ELSE IF cntrl = "INTERNAL"
    THEN Internal([b EXCEPT !.cntrl = cntrl], dat, self, num_items, dtype)
    ELSE IF cntrl = "EXTERNAL"
    THEN External([b EXCEPT !.cntrl = cntrl], dat, self, has_nam, num_items, dtype)
    ELSE IF cntrl = "OPEN/CLOSE"
    THEN OpenClose([b EXCEPT !.cntrl = cntrl], dat, files, num_items, dtype)
    ELSE IF cntrl = "HDF5" THEN Hdf5([b EXCEPT !.cntrl = cntrl])
    ELSE IF Len(control_line) > 20
    THEN Fixed(b, control_line, self, own_unit, has_nam, num_items, dtype)
    ELSE Raise(b, "ValueError", "array control line not understood")

\* get_array from "dat = control_line.split()" on; "dat[0]" raises
\* IndexError when the line holds no token
ControlWords(first, dat, lines, own_unit, has_nam, nam, files, num_items, dtype) ==
    IF dat = <<>>
    THEN Raise(Base(first.lineno, nam), "IndexError", "list index out of range")
    ELSE Control(Upper(dat[1]),
                 [Base(first.lineno, nam) EXCEPT !.text = ArrayText(first.line, dat)],
                 first.line, dat,
                 Source("self", lines, 0, first.lineno),
                 own_unit, has_nam, files, num_items, dtype)

\* get_array after "first_line = self.nextline(data_set_num)" gave first
ControlLine(first, lines, own_unit, has_nam, nam, files, num_items, dtype) ==
    IF first.out.exc # "none"
    THEN Raise(Base(first.lineno, nam), first.out.exc, first.out.msg)
    ELSE ControlWords(first, Split(first.line), lines, own_unit, has_nam, nam,
                      files, num_items, dtype)

\* MFFileReader.get_array(data_set_num, shape, dtype, return_dict=True) on
\* the reader (lines, lineno) of a package with unit own_unit whose nam
\* attribute is set (has_nam) to a Modflow with unit registry nam, files
\* being what open() finds
get_array(lines, lineno, own_unit, has_nam, nam, files, shape, dtype) ==
    ControlLine(nextline(lines, lineno), lines, own_unit, has_nam, nam, files,
                Product(shape), dtype)

(***************************************************************************)
(* get_items.                                                              *)
(***************************************************************************)
\* MFFileReader.conv(item, fmt) succeeds, for fmt "s", "i" or "f"
ConvOk(item, fmt) == fmt = "s" \/ NumOk(item, fmt)

\* MFFileReader.conv(item, fmt): the string itself, int(item), or
\* parent._float_type.type(item)
conv(item, fmt) == IF fmt = "s" THEN item ELSE NumVal(item, fmt)

RECURSIVE CollectItemsPadded(_, _, _, _)
\* CollectItems with the end of input swallowed: the items are padded with
\* "0" up to num_items, as a one-line read pads them
CollectItemsPadded(lines, lineno, items, num_items) ==
    IF Len(items) >= num_items
    THEN [out |-> Ok, items |-> items, lineno |-> lineno]
    ELSE LET r == nextline(lines, lineno)
         IN  IF r.out.exc # "none"
             THEN [out |-> Ok,
                   items |-> items \o [i \in 1..(num_items - Len(items)) |-> "0"],
                   lineno |-> r.lineno]
             ELSE CollectItemsPadded(lines, r.lineno, items \o Split(r.line),
                                     num_items)

RECURSIVE CollectItems(_, _, _, _)
\* "while len(items) < num_items: items += self.nextline().split()"
CollectItems(lines, lineno, items, num_items) ==
    IF Len(items) >= num_items
    THEN [out |-> Ok, items |-> items, lineno |-> lineno]
    ELSE LET r == nextline(lines, lineno)
         IN  IF r.out.exc # "none"
             THEN [out |-> r.out, items |-> items, lineno |-> r.lineno]
             ELSE CollectItems(lines, r.lineno, items \o Split(r.line), num_items)

\* FillMissing without the padding: fill_missing stays False
NoFill(found, num_items) == 0

\* the number of "zero" items get_items appends to a one-line read
FillMissing(found, num_items) == IF found < num_items THEN num_items - found ELSE 0

\* MFFileReader.get_items(num_items=num_items, fmt=fmt, multiline=multiline)
\* on the cursor (lines, lineno): the outcome, the list returned, the new
\* lineno
get_items(lines, lineno, num_items, fmt, multiline) ==
    LET Convert(got, fill) ==
            IF \E i \in 1..Len(got.items) : ~ConvOk(got.items[i], fmt)
            THEN [got EXCEPT !.out = Outcome("ValueError", "Cannot cast"),
                             !.items = <<>>]
            ELSE [got EXCEPT !.items =
                    [i \in 1..Len(got.items) |-> conv(got.items[i], fmt)]
                    \o [i \in 1..fill |->
                          conv(IF fmt = "s" THEN "" ELSE "0", fmt)]]
    IN  IF ~multiline
        THEN LET r == nextline(lines, lineno)
                 items == Split(r.line)
                 kept == IF Len(items) > num_items
                         THEN SubSeq(items, 1, num_items) ELSE items
             IN  IF r.out.exc # "none"
                 THEN [out |-> r.out, items |-> <<>>, lineno |-> r.lineno]
                 ELSE Convert([out |-> Ok, items |-> kept, lineno |-> r.lineno],
                              FillMissing(Len(kept), num_items))
        ELSE IF num_items <= 0
        THEN [out |-> Outcome("AssertionError", "num_items > 0"),
              items |-> <<>>, lineno |-> lineno]
        ELSE LET c == CollectItems(lines, lineno, <<>>, num_items)
             IN  IF c.out.exc # "none" THEN [c EXCEPT !.items = <<>>]
                 ELSE Convert([c EXCEPT !.items = SubSeq(c.items, 1, num_items)], 0)

(***************************************************************************)
(* The record-level operations of the reader.  What an operation stores on *)
(* the parent package is returned as the list of its setattr calls, each a *)
(* pair <<name, value>>, in the order they are made.                       *)
(***************************************************************************)
\* "for name, item in zip(names, items)": the pairs, as far as both reach
Zip(names, items) ==
    [i \in 1..Min(Len(names), Len(items)) |-> <<names[i], items[i]>>]

\* MFFileReader.get_named_items(data_set_num, names, fmt): the dict built,
\* as its (name, item) pairs in insertion order; the names are distinct.
\* conv is applied a second time to each converted item, which returns it
get_named_items(lines, lineno, names, fmt) ==
    LET g == get_items(lines, lineno, Len(names), fmt, FALSE)
    IN  [out |-> g.out, lineno |-> g.lineno,
         dict |-> IF g.out.exc = "none" THEN Zip(names, g.items) ELSE <<>>]

\* MFFileReader.read_named_items(data_set_num, names, fmt): setattr on the
\* parent for every key of the dict
read_named_items(lines, lineno, names, fmt) ==
    LET d == get_named_items(lines, lineno, names, fmt)
    IN  [out |-> d.out, lineno |-> d.lineno, attrs |-> d.dict]

RECURSIVE TextRunRewindAtEnd(_, _, _, _)
\* TextRun with the rewind also made when nextline raised at the end of
\* the input
TextRunRewindAtEnd(lines, lineno, text, low) ==
    LET r == nextline(lines, lineno)
    IN  IF r.out.exc # "none"
        THEN [out |-> Ok, text |-> text, lineno |-> r.lineno - 1,
              low |-> Min(low, r.lineno - 1)]
        ELSE IF StartsWith(r.line, "#")
        THEN TextRunRewindAtEnd(lines, r.lineno,
                                Append(text, Strip(Slice(r.line, 1, Len(r.line)))),
                                low)
        ELSE [out |-> Ok, text |-> text, lineno |-> r.lineno - 1,
              low |-> Min(low, r.lineno - 1)]

RECURSIVE TextRunNoRewind(_, _, _, _)
\* TextRun without "self.lineno -= 1": the first record that is not a
\* comment stays consumed
TextRunNoRewind(lines, lineno, text, low) ==
    LET r == nextline(lines, lineno)
    IN  IF r.out.exc # "none"
        THEN [out |-> Ok, text |-> text, lineno |-> r.lineno, low |-> low]
        ELSE IF StartsWith(r.line, "#")
        THEN TextRunNoRewind(lines, r.lineno,
                             Append(text, Strip(Slice(r.line, 1, Len(r.line)))),
                             low)
        ELSE [out |-> Ok, text |-> text, lineno |-> r.lineno, low |-> low]

RECURSIVE TextRun(_, _, _, _)
\* the "while True" loop of read_text from lineno, with the text collected
\* so far and the lowest lineno the call has set so far: the IndexError of
\* nextline ends the loop, a record that does not start with "#" is given
\* back with "self.lineno -= 1"
TextRun(lines, lineno, text, low) ==
    LET r == nextline(lines, lineno)
    IN  IF r.out.exc # "none"
        THEN [out |-> Ok, text |-> text, lineno |-> r.lineno, low |-> low]
        ELSE IF StartsWith(r.line, "#")
        THEN TextRun(lines, r.lineno,
                     Append(text, Strip(Slice(r.line, 1, Len(r.line)))), low)
        ELSE [out |-> Ok, text |-> text, lineno |-> r.lineno - 1,
              low |-> Min(low, r.lineno - 1)]

\* MFFileReader.read_text(): parent.text, the new lineno and the lowest
\* lineno set during the call
read_text(lines, lineno) == TextRun(lines, lineno, <<>>, lineno)

\* "if opt not in self.parent.Options" for each opt of parent.Options: the
\* options the warning is logged for.  The list searched is the list just
\* stored, not parent.valid_options
Unrecognised(Options, has_valid_options, valid_options) ==
    IF has_valid_options
    THEN SelectSeq(Options,
                   LAMBDA opt : ~(\E i \in 1..Len(Options) : Options[i] = opt))
    ELSE <<>>

\* MFFileReader.read_options(data_set_num, process_aux): parent.Options as
\* stored (set tells whether the assignment was reached), the options
\* warned about, the outcome
read_options(lines, lineno, process_aux, has_valid_options, valid_options) ==
    LET r == nextline(lines, lineno)
        Options == Split(Upper(r.line))
    IN  IF r.out.exc # "none"
        THEN [out |-> r.out, lineno |-> r.lineno, set |-> FALSE,
              Options |-> <<>>, warned |-> <<>>]
        ELSE [out |-> IF process_aux THEN Outcome("NotImplementedError", "")
                      ELSE Ok,
              lineno |-> r.lineno, set |-> TRUE, Options |-> Options,
              warned |-> Unrecognised(Options, has_valid_options, valid_options)]

RECURSIVE BindParameters(_, _, _)
\* "for name, item in zip(names, items[1:]): value = self.conv(item, 'i',
\* name); setattr(self.parent, name, value)" from the i-th name on: the
\* setattr calls made, and the number of names reached when it stopped
BindParameters(names, items, i) ==
    IF i > Len(names) \/ i + 1 > Len(items)
    THEN [out |-> Ok, attrs |-> <<>>]
    ELSE IF ~ConvOk(items[i + 1], "i")
    THEN [out |-> Outcome("ValueError", "Cannot cast"), attrs |-> <<>>]
    ELSE LET rest == BindParameters(names, items, i + 1)
         IN  [out |-> rest.out,
              attrs |-> <<<<names[i], conv(items[i + 1], "i")>>>> \o rest.attrs]

\* read_parameter with the peeked record given back twice
read_parameterRewindTwice(lines, lineno, names) ==
    LET r == nextline(lines, lineno)
    IN  IF r.out.exc # "none"
        THEN [out |-> r.out, lineno |-> r.lineno, attrs |-> <<>>,
              low |-> lineno]
        ELSE [out |-> Ok, lineno |-> r.lineno - 2,
              attrs |-> [i \in 1..Len(names) |-> <<names[i], Num(0)>>],
              low |-> r.lineno - 2]

\* the loop of read_parameter has run on the items g of the record: the
\* cursor is where get_items left it
ParameterBound(b, g, lineno) ==
    [out |-> b.out, lineno |-> g.lineno, attrs |-> b.attrs, low |-> lineno]

\* read_parameter after "items = self.get_items(num_items=len(names) + 1)"
\* returned g: the assert on the first item, then the loop over the names
ParameterFound(g, names, lineno) ==
    IF Upper(g.items[1]) # "PARAMETER"
    THEN [out |-> Outcome("AssertionError", g.items[1]), lineno |-> g.lineno,
          attrs |-> <<>>, low |-> lineno]
    ELSE ParameterBound(BindParameters(names, g.items, 1), g, lineno)

\* read_parameter after "line = self.nextline(data_set_num)" returned r:
\* the record is given back ("self.lineno -= 1"), then read again by
\* get_items when it starts with PARAMETER; else every name is set to 0
ParameterPeeked(r, lines, lineno, names) ==
    IF r.out.exc # "none"
    THEN [out |-> r.out, lineno |-> r.lineno, attrs |-> <<>>, low |-> lineno]
    ELSE IF StartsWith(Upper(r.line), "PARAMETER")
    THEN ParameterFound(get_items(lines, r.lineno - 1, Len(names) + 1, "s", FALSE),
                        names, r.lineno - 1)
    ELSE [out |-> Ok, lineno |-> r.lineno - 1,
          attrs |-> [i \in 1..Len(names) |-> <<names[i], Num(0)>>],
          low |-> r.lineno - 1]

\* MFFileReader.read_parameter(data_set_num, names): the setattr calls on
\* the parent, the new lineno and the lowest lineno set during the call
read_parameter(lines, lineno, names) ==
    ParameterPeeked(nextline(lines, lineno), lines, lineno, names)

\* MFFileReader.check_end(): only "lineno > len(lines)" raises
check_end(lines, lineno) ==
    IF Len(lines) >= lineno THEN Ok
    ELSE Outcome("ValueError", "lineno > len")

\* MFFileReader.not_eof
not_eof(lines, lineno) == lineno < Len(lines)

RECURSIVE Str(_)
\* "%s" % n and str(n) for an integer n >= 0
Str(n) ==
    IF n < 10 THEN SubSeq("0123456789", n + 1, n + 1)
    ELSE Str(n \div 10) \o SubSeq("0123456789", (n % 10) + 1, (n % 10) + 1)

\* the location MFFileReader.location_exception formats:
\* "%s:%s:%s:Data set %s:" of the parent's class name, the reader's fname
\* and lineno, and data_set_num
Location(cls, fp_name, lineno, label) ==
    cls \o ":" \o fp_name \o ":" \o Str(lineno) \o ":Data set " \o label \o ":"

\* "except Exception as e: exec(fp.location_exception(e))": the statement
\* "raise type(e)(str(e) + '<location>' + str(e))" is built as source text
\* with the location between single quotes and then executed.  A location
\* that holds a single quote ends the literal early and the text does not
\* compile: exec raises SyntaxError (names of the model hold at most one
\* quote and no backslash).
location_exception(e, cls, fp_name, lineno, label) ==
    IF HasChar(Location(cls, fp_name, lineno, label), "'")
    THEN Outcome("SyntaxError", "unterminated string literal")
    ELSE Outcome(e.exc, e.msg \o Location(cls, fp_name, lineno, label) \o e.msg)

(***************************************************************************)
(* Modflow (moflow/mf/name.py): the object a Name File is read into.       *)
(* An object of the program is a record [cls, nunit, fname, fpath, id]:    *)
(* its class name, the attributes Modflow.read sets on it (fpath "" when   *)
(* never set) and an identity.  A dict is the sequence of its <<key,       *)
(* value>> pairs in insertion order.  What a call logs or decodes is       *)
(* appended to a list of events.                                           *)
(***************************************************************************)
\* moflow.mf.class_dict as built when the package is imported: only base.py
\* is loaded by then, and MFPackageDIS is its one subclass of MFPackage
ImportedClasses == { "MFPackageDIS" }

\* class_dict after a caller has added the package classes of discr.py,
\* basic.py and gwflowproc.py under their names
FilledClasses == ImportedClasses \cup { "DIS", "DISU", "BAS6", "LPF" }

\* isinstance(obj, MFPackage)
IsPackage(obj) == obj.cls # "MFData"

\* MFPackage._attr_name
AttrName(obj) == Lower(obj.cls)

\* "key in d" for a dict
HasKey(d, key) == \E i \in 1..Len(d) : d[i][1] = key

\* d[key] for a key of the dict
Lookup(d, key) == d[CHOOSE i \in 1..Len(d) : d[i][1] = key][2]

\* d[key] = value: a key already there keeps its place and takes the value
SetItem(d, key, value) ==
    IF HasKey(d, key)
    THEN [i \in 1..Len(d) |-> IF d[i][1] = key THEN <<key, value>> ELSE d[i]]
    ELSE Append(d, <<key, value>>)

\* "x in list"
InList(list, x) == \E i \in 1..Len(list) : list[i] = x

\* os.listdir(ref_dir)
DiskNames ==
    << "a.dis", "bad.dis", "cut.dis", "a.disu", "a.bas", "a.lpf", "Data.DAT",
       "ext.disu", "o'k.disu" >>

\* os.path.isfile(fpath) for a path in ref_dir
isfile(fpath) == InList(DiskNames, fpath)

\* the records of ext.disu and o'k.disu: a DISU file whose first array
\* (data set 3, NODELAY) is asked of unit 14
ExternalRecords ==
    << "# disu\n", " 1 1 1 0 1 4 2 0\n", " 0\n", "EXTERNAL 14 1 (FREE) 1\n" >>

\* get_array on the control line "EXTERNAL nunit 1 (FREE) 1" with the
\* registry of m, which holds the packages and MFData objects Modflow.read
\* has registered: an unbound unit is a KeyError, and an object of the
\* registry has no readline, so read_array_data raises NotImplementedError
ExternalRaises(m, nunit) ==
    IF ~HasKey(m._nunit, nunit) THEN Outcome("KeyError", "nunit not in nam")
    ELSE Outcome("NotImplementedError", "not sure how to 'readline'")

\* what a statement of the try block of DIS.read or DISU.read raises on
\* the file at obj.fpath, with the reader's line and data-set label then:
\* a token that does not convert (bad.dis), a file that ends early
\* (cut.dis), the get_array of data set 3 (ext.disu, o'k.disu), nothing
\* for the other files
RaisedInside(obj, m) ==
    CASE obj.fpath = "bad.dis" ->
            [out |-> Outcome("ValueError", "Cannot cast"), lineno |-> 2,
             label |-> "1"]
      [] obj.fpath = "cut.dis" ->
            [out |-> Outcome("IndexError", "Unexpected end of file"),
             lineno |-> 2, label |-> "2"]
      [] obj.fpath \in {"ext.disu", "o'k.disu"} ->
            [out |-> ExternalRaises(m, IntVal(Split(ExternalRecords[4])[2])),
             lineno |-> 4, label |-> "3"]
      [] OTHER -> [out |-> Ok, lineno |-> 0, label |-> "None"]

\* what DIS.read or DISU.read does with the file at fpath: the reader is
\* built outside the try (no fpath and no fname: ValueError), the records
\* are decoded inside it, and an error of a reader operation is raised
\* again by exec(fp.location_exception(e))
DecodeFile(obj, m) ==
    IF obj.fpath = "" /\ obj.fname = ""
    THEN Outcome("ValueError", "unsure how to open file")
    ELSE IF RaisedInside(obj, m).out.exc = "none" THEN Ok
    ELSE location_exception(RaisedInside(obj, m).out, obj.cls, obj.fpath,
                            RaisedInside(obj, m).lineno,
                            RaisedInside(obj, m).label)

\* what package.read() raises before anything is raised again: the error
\* of MFPackage.read for a class that does not override it, the error
\* inside the try block for DIS and DISU
ReadRaises(obj, m) ==
    IF obj.cls \in {"DIS", "DISU"}
    THEN IF obj.fpath = "" /\ obj.fname = ""
         THEN Outcome("ValueError", "unsure how to open file")
         ELSE RaisedInside(obj, m).out
    ELSE IF obj.cls = "BAS6"
    THEN Outcome("AttributeError", "'dis' or 'disu' is not set")
    ELSE Outcome("NotImplementedError", "'read' not implemented")

\* package.read(): MFPackage.read unless the class overrides it
PackageRead(obj, m) ==
    IF obj.cls \in {"DIS", "DISU"} THEN DecodeFile(obj, m)
    ELSE ReadRaises(obj, m)

\* hasattr(package, "dis") and hasattr(package, "disu"): the properties of
\* MFPackageDIS
HasDisProperty(obj) == obj.cls \in {"BAS6", "MFPackageDIS"}

\* Modflow.__setattr__(name, value) for a package value under its own
\* attribute name: the attribute is set, and the name is appended to
\* _packages when it is not in the list
SetPackageAttr(m, obj) ==
    [m EXCEPT !.attrs = SetItem(m.attrs, AttrName(obj), obj),
              !._packages = IF InList(m._packages, AttrName(obj))
                            THEN m._packages
                            ELSE Append(m._packages, AttrName(obj))]

\* os.path.isdir(os.path.join(ref_dir, "")): the directory of a name
\* without directory is ref_dir itself, and "" is not a directory
isdir(ref_dir) == ref_dir # ""

\* the file-name resolution of Modflow.read for a name without directory
\* (and without quotes or backslashes): the name as written when that file
\* exists or ref_dir is not a directory, else the listed name that equals
\* it in lower case (the last such name of the listing), else the name as
\* written
ResolveName(fname, ref_dir) ==
    LET same == {i \in 1..Len(DiskNames) : Lower(DiskNames[i]) = Lower(fname)}
    IN  IF isfile(fname) \/ ~isdir(ref_dir) \/ same = {} THEN fname
        ELSE DiskNames[CHOOSE i \in same : \A j \in same : j <= i]

\* the class Modflow.read instantiates for an upper-cased Ftype
ClassOf(ftype, classes) ==
    IF StartsWith(ftype, "DATA") THEN "MFData"
    ELSE IF ftype \in classes THEN ftype
    ELSE "MFPackage"

\* a raise inside Modflow.read: the object is left as it is
Fail(m, exc, msg) == [m EXCEPT !.out = Outcome(exc, msg)]

\* getattr(self, name, None) is a package
HoldsPackage(m, name) == HasKey(m.attrs, name) /\ IsPackage(Lookup(m.attrs, name))

\* Modflow.__setattr__(name, value) with the name check left out
setattrAnyName(m, name, value) ==
    IF (HasKey(m.attrs, name) \/ StartsWith(name, "_")) /\ ~HoldsPackage(m, name)
    THEN [m EXCEPT !.attrs = SetItem(m.attrs, name, value), !.out = Ok]
    ELSE IF IsPackage(value)
    THEN [m EXCEPT !.attrs = SetItem(m.attrs, name, value),
                   !._packages = IF InList(m._packages, name) THEN m._packages
                                 ELSE Append(m._packages, name),
                   !.out = Ok]
    ELSE Fail(m, "ValueError", "must be a MFPackage object or other existing attribute")

\* Modflow.__setattr__(name, value) for a name that is no attribute of the
\* class: a name that starts with "_", or that is an attribute holding no
\* package, is set as on any object; else a package is set under its own
\* attribute name only, and anything else is refused
setattr(m, name, value) ==
    IF (HasKey(m.attrs, name) \/ StartsWith(name, "_")) /\ ~HoldsPackage(m, name)
    THEN [m EXCEPT !.attrs = SetItem(m.attrs, name, value), !.out = Ok]
    ELSE IF IsPackage(value)
    THEN IF name # AttrName(value)
         THEN Fail(m, "AttributeError", "must have an attribute name")
         ELSE [SetPackageAttr(m, value) EXCEPT !.out = Ok]
    ELSE Fail(m, "ValueError", "must be a MFPackage object or other existing attribute")

\* "del d[key]" for a dict, "del list[list.index(x)]" for a list
DelItem(d, key) == SelectSeq(d, LAMBDA kv : kv[1] # key)

DelFirst(list, x) ==
    LET i == CHOOSE i \in 1..Len(list) :
                 list[i] = x /\ \A j \in 1..(i - 1) : list[j] # x
    IN  SubSeq(list, 1, i - 1) \o SubSeq(list, i + 1, Len(list))

\* Modflow.__delattr__(name): the name leaves _packages, then the
\* attribute is deleted, which raises when there is none
delattr(m, name) ==
    IF HasKey(m.attrs, name)
    THEN [m EXCEPT !._packages = IF InList(m._packages, name)
                                 THEN DelFirst(m._packages, name)
                                 ELSE m._packages,
                   !.attrs = DelItem(m.attrs, name), !.out = Ok]
    ELSE [m EXCEPT !._packages = IF InList(m._packages, name)
                                 THEN DelFirst(m._packages, name)
                                 ELSE m._packages,
                   !.out = Outcome("AttributeError", "object has no attribute")]

\* Modflow.append(package): a package whose attribute name is free is set
\* under that name and, when it has a unit, registered under it
append(m, package) ==
    IF ~IsPackage(package)
    THEN Fail(m, "ValueError", "value must be a MFPackage-related object")
    ELSE IF HasKey(m.attrs, AttrName(package))
    THEN Fail(m, "ValueError", "already exists; use setattr to replace")
    ELSE IF setattr(m, AttrName(package), package).out.exc # "none"
    THEN setattr(m, AttrName(package), package)
    ELSE IF package.nunit # 0
    THEN [setattr(m, AttrName(package), package)
             EXCEPT !._nunit = SetItem(m._nunit, package.nunit, package)]
    ELSE setattr(m, AttrName(package), package)

\* one more event: what happened, the attribute name or Ftype concerned,
\* the identity of the object and its unit
Note(m, ev, name, id, nunit) ==
    [m EXCEPT !.log = Append(m.log, [ev |-> ev, name |-> name, id |-> id,
                                     nunit |-> nunit])]

\* a raise inside the loop over the lines: the entry of line ln stops the
\* read
Reject(m, ln, exc, msg) ==
    Fail(Note(m, "rejected", "", <<m.reads, ln>>, 0), exc, msg)

\* the body of "for ln, line in enumerate(lines, start=1)" for one entry
\* line of three or more items.  Setting fpath on a package whose file does
\* not exist raises MissingFile, so the warning for that file (after the
\* assignment) is never logged; for a DATA entry the path is a plain
\* attribute, and only option OLD logs a warning for a file that does not
\* exist
Register(m, ln, dat) ==
    LET ftype == Upper(dat[1])
        cls == ClassOf(ftype, m.classes)
        fname == ResolveName(dat[3], m.ref_dir)
        option == IF Len(dat) >= 4 THEN Upper(dat[4]) ELSE ""
        missing == cls # "MFData" /\ ~isfile(fname)
        obj == [cls |-> cls, nunit |-> IntVal(dat[2]), fname |-> fname,
                fpath |-> IF missing THEN "" ELSE fname,
                id |-> <<m.reads, ln>>]
        m1 == IF cls = "MFPackage"
              THEN Note(m, "unsupported", ftype, <<m.reads, ln>>, 0)
              ELSE m
        m2 == [Note(m1, "register", ftype, obj.id, obj.nunit)
                  EXCEPT !._nunit = SetItem(m1._nunit, obj.nunit, obj)]
    IN  IF ~IntOk(dat[2])
        THEN Reject(m1, ln, "ValueError", "invalid literal for int()")
        ELSE IF missing
        THEN Reject(m2, ln, "MissingFile", "is not a valid path to a file")
        ELSE IF IsPackage(obj) THEN SetPackageAttr(m2, obj)
        ELSE IF ~isfile(fname) /\ option = "OLD"
        THEN Note(m2, "flagged", ftype, obj.id, obj.nunit)
        ELSE m2

\* the body of the loop for line ln
NamLine(m, ln, line) ==
    LET stripped == RStrip(line)
        dat == Split(stripped)
    IN  IF stripped = "" \/ StartsWith(stripped, "#") THEN m
        ELSE IF Len(dat) < 3
        THEN Reject(m, ln, "ValueError", "3 or 4 items are expected")
        ELSE Register(m, ln, dat)

RECURSIVE NamLines(_, _, _)
\* the loop over the lines of the Name File from line ln on
NamLines(m, lines, ln) ==
    IF ln > Len(lines) \/ m.out.exc # "none" THEN m
    ELSE NamLines(NamLine(m, ln, lines[ln]), lines, ln + 1)

\* hasattr(self, "dis") / hasattr(self, "disu") choose dis_mode; with
\* neither, the error is logged and dis_mode stays unbound: "" here
DisMode(m) ==
    IF HasKey(m.attrs, "dis") THEN "dis"
    ELSE IF HasKey(m.attrs, "disu") THEN "disu"
    ELSE ""

\* one pass of "for name in self._packages" for the package under name
DecodeOne(m, name, dis_mode) ==
    LET package == Lookup(m.attrs, name)
        r == PackageRead(package, m)
        m1 == Note(m, "decode", name, package.id, package.nunit)
    IN  IF name = dis_mode THEN m
        ELSE IF HasDisProperty(package)
        THEN Fail(m, "AttributeError", "module 'dis' has no attribute")
        ELSE IF r.exc = "NotImplementedError"
        THEN Note(m1, "skip", name, package.id, package.nunit)
        ELSE IF r.exc # "none"
        THEN [Note(m1, "failed", name, package.id, package.nunit) EXCEPT !.out = r]
        ELSE m1

RECURSIVE DecodeFrom(_, _, _)
\* the loop over self._packages from its i-th name on
DecodeFrom(m, i, dis_mode) ==
    IF i > Len(m._packages) \/ m.out.exc # "none" THEN m
    ELSE DecodeFrom(DecodeOne(m, m._packages[i], dis_mode), i + 1, dis_mode)

\* "dis_obj = getattr(self, dis_mode); dis_obj.read()" and the loop after it
DecodeAll(m) ==
    LET dis_mode == DisMode(m)
        dis_obj == Lookup(m.attrs, dis_mode)
        r == PackageRead(dis_obj, m)
        m1 == Note(m, "decode", dis_mode, dis_obj.id, dis_obj.nunit)
    IN  IF dis_mode = ""
        THEN Fail(Note(m, "error", "'DIS' or 'DISU' not in Name file!",
                       <<m.reads, 0>>, 0),
                  "UnboundLocalError", "dis_mode")
        ELSE IF r.exc # "none"
        THEN [Note(m1, "aborted", dis_mode, dis_obj.id, dis_obj.nunit)
                 EXCEPT !.out = r]
        ELSE DecodeFrom(m1, 1, dis_mode)

\* ModflowRead on an object whose package attributes are deleted first
ModflowReadFresh(m, lines, ref_dir) ==
    LET m0 == [m EXCEPT !._packages = <<>>, !._nunit = <<>>, !.log = <<>>,
                        !.out = Ok, !.reads = m.reads + 1,
                        !.ref_dir = ref_dir, !.attrs = <<>>]
        m1 == NamLines(m0, lines, 1)
    IN  IF m1.out.exc # "none" THEN m1
        ELSE IF Len(lines) = 0 THEN Fail(m1, "UnboundLocalError", "ln")
        ELSE DecodeAll(m1)

\* Modflow.read(fname) on the object m, the Name File holding lines and
\* os.path.dirname(fname) being ref_dir: "" for a bare file name.  The
\* package list and the unit registry are emptied; the attributes stay
ModflowRead(m, lines, ref_dir) ==
    LET m0 == [m EXCEPT !._packages = <<>>, !._nunit = <<>>, !.log = <<>>,
                        !.out = Ok, !.reads = m.reads + 1,
                        !.ref_dir = ref_dir]
        m1 == NamLines(m0, lines, 1)
    IN  IF m1.out.exc # "none" THEN m1
        ELSE IF Len(lines) = 0 THEN Fail(m1, "UnboundLocalError", "ln")
        ELSE DecodeAll(m1)

(***************************************************************************)
(* The inputs of the model.                                                *)
(***************************************************************************)
\* the unit of the package that owns the reader (p.nunit = 11 in the tests)
OwnUnit == 11

\* the text held by the formatted foreign sources
TwoRecords == " 1 2 3\n 4 5 6\n"

OneRecord == " 7\n"

\* a unit registry as test_mf_read_fixed_arrays builds it: the package
\* itself under its own unit (Modflow.append), StringIO and BytesIO
\* objects under other units, an MFData as Modflow.read registers for a
\* DATA entry; unit 99 is not bound
Registry ==
    (OwnUnit :> Source("pkg", <<>>, 0, 0))
    @@ (16 :> Source("text", TwoRecords, 0, 0))
    @@ (52 :> Source("text", OneRecord, 0, 0))
    @@ (17 :> Source("bytes", <<Num(1), Num(2), Num(3), Num(4)>>, 0, 0))
    @@ (18 :> Source("bytes", <<Num(5)>>, 2, 0))
    @@ (20 :> Source("data", <<>>, 0, 0))

\* the files open() finds, as opened in mode "rb"
Disk ==
    ("a.dat" :> Source("tbytes", TwoRecords, 0, 0))
    @@ ("s.dat" :> Source("tbytes", OneRecord, 0, 0))
    @@ ("b.bin" :> Source("bytes", <<Num(1), Num(2), Num(3)>>, 0, 0))

\* control lines whose payload follows in the reader's own source
OwnControls ==
    { "INTERNAL 1 (FREE)\n",
      "INTERNAL 2 (3I2) 3\n",
      "internal 1.0 (2F4.0) 3 label\n",
      "        11         1(3I2)                        3\n",
      "        11        2.(free)\n" }

\* payload records
PayloadRecords == { " 1 2 3\n", " 4 5\n", "   7\n" }

\* control lines that take no payload from the reader's own source
OtherControls ==
    { "CONSTANT 5\n",
      "CONSTANT  5.7     This sets an entire array to the value 5.7.\n",
      "constant -2 # note\n",
      "CONSTANT\n",
      "CONSTANT x\n",
      "INTERNAL 1\n",
      "INTERNAL 1 (BINARY)\n",
      "INTERNAL 1 (XYZ)\n",
      "EXTERNAL 16 2 (3I2) 3\n",
      "EXTERNAL 16 1 (free) 3 label\n",
      "EXTERNAL 16 1 (FREE) 3 label # x\n",
      "EXTERNAL 52 1 (FREE) 3\n",
      "EXTERNAL 17 1 (BINARY) 3\n",
      "EXTERNAL 18 1 (BINARY) 3\n",
      "EXTERNAL 20 1 (FREE) 3\n",
      "EXTERNAL 11 1 (BINARY) 3\n",
      "EXTERNAL 99 1 (FREE) 3\n",
      "EXTERNAL 16 1 (FREE)\n",
      "EXTERNAL xx 1 (FREE) 3\n",
      "OPEN/CLOSE a.dat 2 (3I2) 3\n",
      "OPEN/CLOSE s.dat 1 (FREE) 3\n",
      "OPEN/CLOSE b.bin 1 (BINARY) 3\n",
      "OPEN/CLOSE none.dat 1 (FREE) 3\n",
      "OPEN/CLOSE a.dat 1 (FREE)\n",
      "HDF5 1.0 0 \"f.h5\" \"Arrays/x\" 1 0 3\n",
      "         0        6. (15f4.0)                    7  # Some text\n",
      "         0         8(12I2)                       3\n",
      "         0      145.\n",
      "        16         2(3I2)                        3\n",
      "        16         1(FREE)\n",
      "        16         1 3I2\n",
      "        20         1(FREE)\n",
      "        99         1(3I2)\n",
      "       -17        1. (binary)                    7\n",
      "       -17        2.\n",
      "       -17         1(3I2)\n",
      "       -18        1. (binary)\n",
      "       -16        1. (FREE)\n",
      "       -11        1. (binary)\n",
      "        xx         1(3I2)\n",
      "\n",
      "   \n",
      " 1 2 3\n" }

\* a last line without its newline: 20 characters
LastControls == { "         0      145." }

\* the payload records that follow a control line: at most two
Payloads ==
    {<<>>} \cup {<<a>> : a \in PayloadRecords}
           \cup {<<a, b>> : a \in PayloadRecords, b \in PayloadRecords}

\* control lines that name a bound unit: arrays that follow one another
\* in the same source, as in test_mf_read_fixed_arrays
UnitControls ==
    { "EXTERNAL 16 2 (3I2) 3\n",
      "EXTERNAL 16 1 (free) 3 label\n",
      "        16         2(3I2)                        3\n",
      "        16         1(FREE)\n",
      "EXTERNAL 17 1 (BINARY) 3\n" }

\* the files a reader is opened on
InputFiles ==
    {<<c>> \o p : c \in OwnControls, p \in Payloads}
        \cup {<<c, " 1 2 3\n">> : c \in OtherControls}
        \cup {<<c>> : c \in LastControls}
        \cup {<<c, d>> : c \in UnitControls, d \in UnitControls}

\* the shapes asked of get_array: one and two dimensions
Shapes ==
    {<<n>> : n \in 1..MaxSize}
        \cup {<<2, n>> : n \in 1..(MaxSize \div 2)}

\* Modflow(): no package, no unit, nothing read; with it, class_dict as
\* imported
NewModflow ==
    [classes |-> ImportedClasses, _packages |-> <<>>, _nunit |-> <<>>,
     attrs |-> <<>>, log |-> <<>>, out |-> Ok, reads |-> 0, ref_dir |-> ""]

(***************************************************************************)
(* The state machine: one MFFileReader on one package.                     *)
(***************************************************************************)
VARIABLES
    lines,          \* MFFileReader.lines
    lineno,         \* MFFileReader.lineno
    parent_nunit,   \* parent.nunit
    parent_nam,     \* parent.nam is not None
    units,          \* parent.nam._nunit: the unit registry
    fds,            \* the files this reader holds open
    mf,             \* a Modflow object and the classes it can instantiate
    fp_fname,       \* MFFileReader.fname: the name of the reader's source
    data_set_num,   \* MFFileReader.data_set_num, as "%s" formats it
    res             \* the last operation: its arguments, the state it
                    \* started from, and what it returned or raised

vars ==
    <<lines, lineno, parent_nunit, parent_nam, units, fds, mf, fp_fname,
      data_set_num, res>>

\* MFFileReader(f, p) for a package p appended to a Modflow
Init ==
    /\ lines \in InputFiles
    /\ lineno = 0
    /\ parent_nunit = OwnUnit
    /\ parent_nam = TRUE
    /\ units = Registry
    /\ fds = {}
    /\ mf = NewModflow
    /\ fp_fname = "StringIO"
    /\ data_set_num = "None"
    /\ res = [op |-> "none", out |-> Ok]

\* no operation starts after one that never returned
Running == res.out.exc # "hang"

\* r.get_array(data_set_num, shape, dtype, return_dict=True)
GetArray(shape, dtype) ==
    /\ Running
    /\ LET r == get_array(lines, lineno, parent_nunit, parent_nam, units, Disk,
                          shape, dtype)
       IN  /\ lineno' = r.lineno
           /\ units' = r.nam
           /\ fds' = fds \cup r.open
           /\ res' = [op |-> "get_array", out |-> r.out, shape |-> shape,
                      dtype |-> dtype, lineno0 |-> lineno, units0 |-> units,
                      nam0 |-> parent_nam, ret |-> r]
    /\ UNCHANGED <<lines, parent_nunit, parent_nam, mf, fp_fname, data_set_num>>

\* r.get_items(num_items=num_items, fmt=fmt, multiline=multiline)
GetItems(num_items, fmt, multiline) ==
    /\ Running
    /\ LET r == get_items(lines, lineno, num_items, fmt, multiline)
       IN  /\ lineno' = r.lineno
           /\ res' = [op |-> "get_items", out |-> r.out, num_items |-> num_items,
                      fmt |-> fmt, multiline |-> multiline, lineno0 |-> lineno,
                      items |-> r.items]
    /\ UNCHANGED <<lines, parent_nunit, parent_nam, units, fds, mf, fp_fname,
                   data_set_num>>

\* p.nam = None: the package is detached from its Modflow
DetachNam ==
    /\ Running
    /\ parent_nam
    /\ parent_nam' = FALSE
    /\ res' = [op |-> "nam", out |-> Ok]
    /\ UNCHANGED <<lines, lineno, parent_nunit, units, fds, mf, fp_fname, data_set_num>>

\* r.nextline()
NextLine ==
    /\ Running
    /\ LET r == nextline(lines, lineno)
       IN  /\ lineno' = r.lineno
           /\ res' = [op |-> "nextline", out |-> r.out, lineno0 |-> lineno,
                      line |-> r.line]
    /\ UNCHANGED <<lines, parent_nunit, parent_nam, units, fds, mf, fp_fname,
                   data_set_num>>

\* the array decoder: get_array calls on every control line of the input
\* files, in any order with single-record steps
Next ==
    \/ \E shape \in Shapes, dtype \in {"f", "i"} : GetArray(shape, dtype)
    \/ NextLine
    \/ DetachNam

Spec == Init /\ [][Next]_vars

(***************************************************************************)
(* The item reader: get_items calls on files of plain records.             *)
(***************************************************************************)
ItemRecords == { "100 ignore\n", "200 -2.5\n", " 4 500 FREE\n", "\n", "7" }

\* files of one or two records; only a last record may lack its newline
ItemFiles ==
    {<<a>> : a \in ItemRecords}
        \cup {<<a, b>> : a \in ItemRecords \ {"7"}, b \in ItemRecords}

InitItems ==
    /\ lines \in ItemFiles
    /\ lineno = 0
    /\ parent_nunit = 0
    /\ parent_nam = TRUE
    /\ units = <<>>
    /\ fds = {}
    /\ mf = NewModflow
    /\ fp_fname = "StringIO"
    /\ data_set_num = "None"
    /\ res = [op |-> "none", out |-> Ok]

NextItems ==
    \/ \E n \in 0..MaxItems, fmt \in {"s", "i", "f"}, multiline \in BOOLEAN :
          GetItems(n, fmt, multiline)
    \/ NextLine

SpecItems == InitItems /\ [][NextItems]_vars

(***************************************************************************)
(* The record reader: every operation of MFFileReader on files of comment, *)
(* option, parameter, item and control records.                            *)
(***************************************************************************)
\* records that start with "#"
CommentRecords == { "#  Text 1 \n", "#\n" }

\* records a last line may not be: each ends with its newline
ReaderRecords ==
    CommentRecords
        \cup { "PARAMETER 2 30\n", "parameter 5\n", "PARAMETERS 1 2\n",
               "PARAMETER 1 x\n", " PARAMETER 1 2\n", "free chtoch xyz\n",
               " 4 500 FREE\n", "\n", "CONSTANT 5\n", "INTERNAL 1 (FREE)\n" }

\* last lines without their newline
LastRecords == { "#end", "7" }

\* the records that follow another record
SecondRecords == { "#\n", " 4 500 FREE\n", "7" }

\* files of one to three records; the files of three start with two
\* comment records
ReaderFiles ==
    {<<a>> : a \in ReaderRecords \cup LastRecords}
        \cup {<<a, b>> : a \in ReaderRecords, b \in SecondRecords}
        \cup {<<a, b, c>> : a \in CommentRecords, b \in CommentRecords,
                            c \in SecondRecords}

\* the names passed to the named operations: distinct attribute names
NameLists == { <<>>, <<"par1">>, <<"par1", "par2">> }

\* BAS6.valid_options
valid_options ==
    <<"XSECTION", "CHTOCH", "FREE", "PRINTTIME", "SHOWPROGRESS", "STOPERROR">>

InitReader ==
    /\ lines \in ReaderFiles
    /\ lineno = 0
    /\ parent_nunit = OwnUnit
    /\ parent_nam = TRUE
    /\ units = Registry
    /\ fds = {}
    /\ mf = NewModflow
    /\ fp_fname = "StringIO"
    /\ data_set_num = "None"
    /\ res = [op |-> "none", out |-> Ok]

\* r.get_named_items(data_set_num, names, fmt)
GetNamedItems(names, fmt) ==
    /\ Running
    /\ LET r == get_named_items(lines, lineno, names, fmt)
       IN  /\ lineno' = r.lineno
           /\ res' = [op |-> "get_named_items", out |-> r.out, names |-> names,
                      fmt |-> fmt, lineno0 |-> lineno, dict |-> r.dict]
    /\ UNCHANGED <<lines, parent_nunit, parent_nam, units, fds, mf, fp_fname,
                   data_set_num>>

\* r.read_named_items(data_set_num, names, fmt)
ReadNamedItems(names, fmt) ==
    /\ Running
    /\ LET r == read_named_items(lines, lineno, names, fmt)
       IN  /\ lineno' = r.lineno
           /\ res' = [op |-> "read_named_items", out |-> r.out, names |-> names,
                      fmt |-> fmt, lineno0 |-> lineno, attrs |-> r.attrs]
    /\ UNCHANGED <<lines, parent_nunit, parent_nam, units, fds, mf, fp_fname,
                   data_set_num>>

\* r.read_text()
ReadText ==
    /\ Running
    /\ LET r == read_text(lines, lineno)
       IN  /\ lineno' = r.lineno
           /\ res' = [op |-> "read_text", out |-> r.out, lineno0 |-> lineno,
                      low |-> r.low, text |-> r.text]
    /\ UNCHANGED <<lines, parent_nunit, parent_nam, units, fds, mf, fp_fname,
                   data_set_num>>

\* r.read_options(data_set_num, process_aux) on a parent that has the
\* attribute valid_options (a BAS6) or has not
ReadOptions(process_aux, has_valid_options) ==
    /\ Running
    /\ LET r == read_options(lines, lineno, process_aux, has_valid_options,
                             valid_options)
       IN  /\ lineno' = r.lineno
           /\ res' = [op |-> "read_options", out |-> r.out, lineno0 |-> lineno,
                      process_aux |-> process_aux,
                      has_valid_options |-> has_valid_options,
                      set |-> r.set, Options |-> r.Options,
                      warned |-> r.warned]
    /\ UNCHANGED <<lines, parent_nunit, parent_nam, units, fds, mf, fp_fname,
                   data_set_num>>

\* r.read_parameter(data_set_num, names)
ReadParameter(names) ==
    /\ Running
    /\ LET r == read_parameter(lines, lineno, names)
       IN  /\ lineno' = r.lineno
           /\ res' = [op |-> "read_parameter", out |-> r.out, names |-> names,
                      lineno0 |-> lineno, low |-> r.low, attrs |-> r.attrs]
    /\ UNCHANGED <<lines, parent_nunit, parent_nam, units, fds, mf, fp_fname,
                   data_set_num>>

NextReader ==
    \/ NextLine
    \/ \E fmt \in {"s", "i"}, multiline \in BOOLEAN :
          GetItems(MaxItems, fmt, multiline)
    \/ \E names \in NameLists : GetNamedItems(names, "f")
    \/ \E names \in NameLists : ReadNamedItems(names, "i")
    \/ ReadText
    \/ \E process_aux \in BOOLEAN, has_valid_options \in BOOLEAN :
          ReadOptions(process_aux, has_valid_options)
    \/ \E names \in NameLists : ReadParameter(names)
    \/ \E dtype \in {"f", "i"} : GetArray(<<MaxSize>>, dtype)

SpecReader == InitReader /\ [][NextReader]_vars

(***************************************************************************)
(* The decode of one package: the statements of the try block of           *)
(* DIS.read, DISU.read or BAS6.read on one MFFileReader, a statement that  *)
(* raises being followed at once by the except clause of the block.        *)
(***************************************************************************)
\* the class of the package being decoded
ParentClass == "DIS"

\* names a reader can have: the class of a file-like object, or the last
\* part of the path of a file
SourceNames == { "StringIO", "a.dis", "o'k.dis" }

\* records of the files decoded
DecodeRecords ==
    { "#  Text 1 \n", " 1 x\n", " 4 500 FREE\n", "CONSTANT 5\n",
      "EXTERNAL 20 1 (FREE) 3\n", "INTERNAL 1 (FREE)\n" }

\* files of up to two records
DecodeFiles ==
    {<<>>} \cup {<<a>> : a \in DecodeRecords}
           \cup {<<a, b>> : a \in DecodeRecords, b \in DecodeRecords}

\* fp = MFFileReader(f, self) for a package appended to a Modflow
InitDecode ==
    /\ lines \in DecodeFiles
    /\ lineno = 0
    /\ parent_nunit = OwnUnit
    /\ parent_nam = TRUE
    /\ units = Registry
    /\ fds = {}
    /\ mf = NewModflow
    /\ fp_fname \in SourceNames
    /\ data_set_num = "None"
    /\ res = [op |-> "none", out |-> Ok]

\* the try block is still running: no statement raised, check_end not
\* reached
Decoding == res.out.exc = "none" /\ (res.op = "decode" => res.step # "check_end")

\* what leaves the try block when a statement ends with outcome out at
\* line at under label: nothing, or the error the except clause raises
Reraised(out, at, label) ==
    IF out.exc \in {"none", "hang"} THEN out
    ELSE location_exception(out, ParentClass, fp_fname, at, label)

\* one statement of the try block: a reader operation called with label,
\* which ended with outcome out at line at, the registry being nam and
\* the files open being open afterwards
DecodeStep(step, out, at, label, nam, open) ==
    /\ Decoding
    /\ lineno' = at
    /\ data_set_num' = label
    /\ units' = nam
    /\ fds' = open
    /\ res' = [op |-> "decode", step |-> step, raw |-> out,
               out |-> Reraised(out, at, label), lineno0 |-> lineno]
    /\ UNCHANGED <<lines, parent_nunit, parent_nam, mf, fp_fname>>

\* fp.read_text(0)
DecodeText ==
    DecodeStep("read_text", read_text(lines, lineno).out,
               read_text(lines, lineno).lineno, "0", units, fds)

\* fp.read_named_items(1, names, "i")
DecodeNamedItems(names) ==
    DecodeStep("read_named_items", read_named_items(lines, lineno, names, "i").out,
               read_named_items(lines, lineno, names, "i").lineno, "1", units, fds)

\* fp.read_options(1, process_aux)
DecodeOptions(process_aux) ==
    DecodeStep("read_options",
               read_options(lines, lineno, process_aux, TRUE, valid_options).out,
               read_options(lines, lineno, process_aux, TRUE, valid_options).lineno,
               "1", units, fds)

\* fp.get_items(2, num_items=num_items, multiline=True)
DecodeItems(num_items) ==
    DecodeStep("get_items", get_items(lines, lineno, num_items, "s", TRUE).out,
               get_items(lines, lineno, num_items, "s", TRUE).lineno, "2", units, fds)

\* the outcome r of fp.get_array(3, shape, self._float_type)
DecodeArrayGot(r) == DecodeStep("get_array", r.out, r.lineno, "3", r.nam, fds \cup r.open)

DecodeArray(shape) ==
    DecodeArrayGot(get_array(lines, lineno, parent_nunit, parent_nam, units, Disk,
                             shape, "f"))

\* fp.check_end(), the last statement of the block
DecodeCheckEnd ==
    DecodeStep("check_end", check_end(lines, lineno), lineno, data_set_num,
               units, fds)

NextDecode ==
    \/ DecodeText
    \/ \E names \in NameLists : DecodeNamedItems(names)
    \/ \E process_aux \in BOOLEAN : DecodeOptions(process_aux)
    \/ \E num_items \in 1..MaxItems : DecodeItems(num_items)
    \/ DecodeArray(<<MaxSize>>)
    \/ DecodeCheckEnd

SpecDecode == InitDecode /\ [][NextDecode]_vars

(***************************************************************************)
(* The Name File reader: Modflow.read calls on one Modflow object.         *)
(***************************************************************************)
\* the reads made on one object
MaxReads == 2

\* lines of a Name File: "Ftype Nunit Fname [Option]", comments, blanks
NamRecords ==
    { "DIS 11 a.dis\n", "dis 11 bad.dis\n", "DISU 12 a.disu\n",
      "BAS6 13 a.bas\n", "LPF 11 a.lpf\n", "LPF 14 A.LPF OLD\n",
      "LPF 15 none.lpf\n", "DATA 20 data.dat\n",
      "DATA(BINARY) 11 out.bin REPLACE\n", "# comment\n", "\n",
      "DIS 11\n", "LPF xx a.lpf\n", "DATA 21 none.dat OLD\n",
      "DISU 12 ext.disu\n", "DISU 12 o'k.disu\n" }

\* Name Files of up to three lines
Manifests ==
    {<<>>} \cup {<<a>> : a \in NamRecords}
        \cup {<<a, b>> : a \in {"DIS 11 a.dis\n", "LPF 11 a.lpf\n", "BAS6 13 a.bas\n"},
                         b \in NamRecords \ {"# comment\n", "\n"}}
        \cup {<<"LPF 14 A.LPF OLD\n", a, b>> :
                 a \in {"DIS 11 a.dis\n", "dis 11 bad.dis\n", "DISU 12 a.disu\n"},
                 b \in {"BAS6 13 a.bas\n", "LPF 11 a.lpf\n", "DISU 12 a.disu\n",
                        "DATA 20 data.dat\n"}}
        \cup {<<"DIS 11 a.dis\n", a, "LPF 14 A.LPF OLD\n">> :
                 a \in {"DISU 12 bad.dis\n", "DISU 12 a.disu\n",
                        "BAS6 13 a.bas\n", "DISU 12 ext.disu\n",
                        "DISU 12 o'k.disu\n"}}

InitNam ==
    /\ lines = <<>>
    /\ lineno = 0
    /\ parent_nunit = 0
    /\ parent_nam = TRUE
    /\ units = <<>>
    /\ fds = {}
    /\ mf = NewModflow
    /\ fp_fname = ""
    /\ data_set_num = "None"
    /\ res = [op |-> "none", out |-> Ok]

\* moflow.mf.class_dict.update(...): a caller adds the package classes
FillClasses ==
    /\ mf.classes = ImportedClasses
    /\ mf.reads = 0
    /\ mf' = [mf EXCEPT !.classes = FilledClasses]
    /\ res' = [op |-> "class_dict", out |-> Ok]
    /\ UNCHANGED <<lines, lineno, parent_nunit, parent_nam, units, fds, fp_fname,
                   data_set_num>>

\* "m.dis = DIS()" or "m.lpf = LPF()": Modflow.__setattr__ with a new
\* package of class cls whose fname and fpath are fname ("" for unset)
SetPackage(cls, fname) ==
    /\ mf.reads < MaxReads
    /\ ~HasKey(mf.attrs, Lower(cls))
    /\ mf' = SetPackageAttr(mf, [cls |-> cls, nunit |-> 0, fname |-> fname,
                                 fpath |-> fname, id |-> <<0, 0>>])
    /\ res' = [op |-> "setattr", out |-> Ok]
    /\ UNCHANGED <<lines, lineno, parent_nunit, parent_nam, units, fds, fp_fname,
                   data_set_num>>

\* the directory part of the path a Name File is read by: none, or one
RefDirs == { "", "." }

\* m.read(fname) for a Name File that holds the lines nam, fname having the
\* directory part ref_dir; the reads after the first are of Name Files of
\* one line at most
Read(nam, ref_dir) ==
    /\ mf.reads < MaxReads
    /\ mf.reads = 0 \/ Len(nam) <= 1
    /\ mf' = ModflowRead(mf, nam, ref_dir)
    /\ res' = [op |-> "read", out |-> mf'.out, nam |-> nam, attrs0 |-> mf.attrs]
    /\ UNCHANGED <<lines, lineno, parent_nunit, parent_nam, units, fds, fp_fname,
                   data_set_num>>

NextNam ==
    \/ FillClasses
    \/ \E fname \in {"", "a.dis"} : SetPackage("DIS", fname)
    \/ \E nam \in Manifests, ref_dir \in RefDirs : Read(nam, ref_dir)

SpecNam == InitNam /\ [][NextNam]_vars

(***************************************************************************)
(* Packages set, appended and deleted on one Modflow object.               *)
(***************************************************************************)
\* the objects a caller holds: two DIS packages, the second with a unit,
\* an LPF package with a unit, and an MFData, which is no package
Objects ==
    { [cls |-> "DIS", nunit |-> 0, fname |-> "", fpath |-> "", id |-> <<0, 1>>],
      [cls |-> "DIS", nunit |-> 7, fname |-> "", fpath |-> "", id |-> <<0, 2>>],
      [cls |-> "LPF", nunit |-> 7, fname |-> "", fpath |-> "", id |-> <<0, 3>>],
      [cls |-> "MFData", nunit |-> 0, fname |-> "", fpath |-> "", id |-> <<0, 4>>] }

\* the attribute names a caller uses
AttrNames == { "dis", "lpf", "_x" }

InitAttr ==
    /\ lines = <<>>
    /\ lineno = 0
    /\ parent_nunit = 0
    /\ parent_nam = TRUE
    /\ units = <<>>
    /\ fds = {}
    /\ mf = NewModflow
    /\ fp_fname = ""
    /\ data_set_num = "None"
    /\ res = [op |-> "none", out |-> Ok]

\* setattr(m, name, value)
SetAttr(name, value) ==
    /\ mf' = setattr(mf, name, value)
    /\ res' = [op |-> "setattr", out |-> mf'.out, name |-> name,
               value |-> value, m0 |-> mf]
    /\ UNCHANGED <<lines, lineno, parent_nunit, parent_nam, units, fds, fp_fname,
                   data_set_num>>

\* m.append(value)
AppendPackage(value) ==
    /\ mf' = append(mf, value)
    /\ res' = [op |-> "append", out |-> mf'.out, name |-> AttrName(value),
               value |-> value, m0 |-> mf]
    /\ UNCHANGED <<lines, lineno, parent_nunit, parent_nam, units, fds, fp_fname,
                   data_set_num>>

\* delattr(m, name)
DelAttr(name) ==
    /\ mf' = delattr(mf, name)
    /\ res' = [op |-> "delattr", out |-> mf'.out, name |-> name,
               value |-> Lookup(<<<<name, CHOOSE o \in Objects : o.cls = "MFData">>>>
                                    \o mf.attrs, name),
               m0 |-> mf]
    /\ UNCHANGED <<lines, lineno, parent_nunit, parent_nam, units, fds, fp_fname,
                   data_set_num>>

NextAttr ==
    \/ \E name \in AttrNames, value \in Objects : SetAttr(name, value)
    \/ \E value \in Objects : AppendPackage(value)
    \/ \E name \in AttrNames : DelAttr(name)

SpecAttr == InitAttr /\ [][NextAttr]_vars

(***************************************************************************)
(* Properties of the array decoder, stated on the last operation (res)     *)
(* and the state it left, under specification Spec.                        *)
(***************************************************************************)
\* the last operation was a get_array call that found its control line
Decoded == res.op = "get_array" /\ res.lineno0 < Len(lines)

\* that control line
ControlOf == lines[res.lineno0 + 1]

\* its tokens
WordsOf == Split(ControlOf)

\* its control word, "" for a line without tokens
WordOf == IF WordsOf = <<>> THEN "" ELSE Upper(WordsOf[1])

Keywords == {"CONSTANT", "INTERNAL", "EXTERNAL", "OPEN/CLOSE", "HDF5"}

\* the element count of the requested shape
SizeOf == Product(res.shape)

\* the line is one get_array decodes as fixed-format: no keyword, more
\* than 20 characters, an integer in columns 1-10
IsFixed ==
    /\ WordsOf # <<>>
    /\ WordOf \notin Keywords
    /\ Len(ControlOf) > 20
    /\ IntOk(Slice(ControlOf, 0, 10))

\* LOCAT, CNSTNT and FMTIN of a fixed-format line
LocatOf == IntVal(Slice(ControlOf, 0, 10))

CnstntOf == Strip(Slice(ControlOf, 10, 20))

FmtinOf == Upper(Strip(Slice(ControlOf, 20, 40)))

\* every unit of the registry but u is bound as before the call
OthersKept(u) ==
    /\ DOMAIN units = DOMAIN res.units0
    /\ \A v \in DOMAIN units : v # u => units[v] = res.units0[v]

\* the array returned is iar scaled by the constant c
IsScaled(iar, c) ==
    /\ Len(res.ret.array) = Len(iar)
    /\ \A i \in 1..Len(iar) :
          res.ret.array[i] = Times(iar[i], NumVal(c, res.dtype))

\* C1 (as claimed): whenever get_array hands a payload to read_array_data
\* under a supported format, from a source that offers the access the
\* format needs and whose tokens convert to the element type,
\* read_array_data returns exactly N elements or raises the size-mismatch
\* error, and fails in no other way.
C1_CountOrSizeMismatch ==
    (/\ Decoded
     /\ res.ret.body # ""
     /\ res.ret.read.exc \notin {"not called", "NotImplementedError", "TypeError"}
     /\ res.ret.read.msg # "conversion")
        => \/ res.ret.read = Ok /\ Len(res.ret.iar) = SizeOf
           \/ res.ret.read = Outcome("ValueError", "expected size")

\* the line is a constant fill: CONSTANT c, or fixed-format with LOCAT = 0
C2_IsConstantFill ==
    /\ Decoded
    /\ \/ WordOf = "CONSTANT" /\ Len(WordsOf) >= 2
       \/ IsFixed /\ LocatOf = 0

C2_Cnstnt == IF WordOf = "CONSTANT" THEN WordsOf[2] ELSE CnstntOf

\* C2: get_array on "CONSTANT c" or on a fixed-format line with LOCAT = 0
\* and constant c advances the cursor by exactly one record, leaves the
\* registry as it was, opens no file and asks no source for a payload;
\* when c converts to the element type it returns an array of the shape's
\* element count whose every element equals c, and when c does not
\* convert it raises ValueError.
C2_ConstantFill ==
    C2_IsConstantFill =>
        /\ lineno = res.lineno0 + 1
        /\ units = res.units0
        /\ res.ret.opened = {} /\ fds = {}
        /\ res.ret.src = "none" /\ res.ret.read.exc = "not called"
        /\ IF NumOk(C2_Cnstnt, res.dtype)
           THEN /\ res.out = Ok
                /\ Len(res.ret.array) = SizeOf
                /\ \A i \in 1..SizeOf :
                      res.ret.array[i] = NumVal(C2_Cnstnt, res.dtype)
           ELSE res.out.exc = "ValueError" /\ res.ret.array = <<>>

\* a fixed-format line with LOCAT = 0 and blank format and print-flag
\* columns filled a float array of two elements with 145
C2_Witness ==
    /\ C2_IsConstantFill
    /\ IsFixed /\ FmtinOf = ""
    /\ res.out = Ok
    /\ res.ret.array = <<Num(145), Num(145)>>

RECURSIVE TokensOf(_, _, _)
\* the tokens records a+1 .. b of the reader's lines hold under fmt
TokensOf(a, b, fmt) ==
    IF b <= a THEN <<>>
    ELSE TokensOf(a, b - 1, fmt) \o LineItems(lines[b], fmt)

\* the line is "INTERNAL c fmt [iprn]" with a text format
C3_IsInternal ==
    /\ Decoded
    /\ WordOf = "INTERNAL" /\ Len(WordsOf) >= 3
    /\ ReFmtin(Upper(WordsOf[3])).ok
    /\ ReFmtin(Upper(WordsOf[3])).body # "BINARY"

C3_Fmt == ReFmtin(Upper(WordsOf[3]))

\* R is the number of payload records needed: the R records after the
\* control line hold at least N tokens, the first R - 1 fewer
C3_Needs(R) ==
    /\ res.lineno0 + 1 + R <= Len(lines)
    /\ Len(TokensOf(res.lineno0 + 1, res.lineno0 + 1 + R, C3_Fmt)) >= SizeOf
    /\ Len(TokensOf(res.lineno0 + 1, res.lineno0 + R, C3_Fmt)) < SizeOf

\* what get_array did when R payload records were needed, toks being
\* their tokens and c the constant
C3_Took(R, toks, c) ==
    /\ lineno = res.lineno0 + 1 + R
    /\ res.out = Ok <=>
          /\ Len(toks) = SizeOf
          /\ \A i \in 1..Len(toks) : NumOk(toks[i], res.dtype)
          /\ NumOk(c, res.dtype)
    /\ res.out = Ok =>
          /\ Len(res.ret.array) = SizeOf
          /\ \A i \in 1..SizeOf :
                res.ret.array[i] =
                    Times(NumVal(toks[i], res.dtype), NumVal(c, res.dtype))

\* C3: get_array on "INTERNAL c fmt [iprn]" takes its payload from the
\* reader's own records right after the control line and touches no other
\* source.  When R payload records are needed to supply the element count
\* N the cursor ends exactly 1 + R records on; the call returns exactly
\* when those records hold N tokens that convert (and c converts), and
\* then element i is token i times c.  When the remaining records hold
\* fewer than N tokens the call raises the end-of-input error.
C3_InternalPayload ==
    C3_IsInternal =>
        /\ units = res.units0
        /\ res.ret.opened = {}
        /\ \A R \in 1..Len(lines) :
              C3_Needs(R) =>
                  C3_Took(R, TokensOf(res.lineno0 + 1, res.lineno0 + 1 + R, C3_Fmt),
                          WordsOf[2])
        /\ (~\E R \in 1..Len(lines) : C3_Needs(R)) =>
              /\ res.out = Outcome("IndexError", "Unexpected end of file")
              /\ lineno = Len(lines)

\* "INTERNAL 2 (3I2) 3" followed by the records " 4 5" and "   7" gave
\* the three elements 8, 10, 14 and moved the cursor by three records
C3_Witness ==
    /\ C3_IsInternal
    /\ res.out = Ok
    /\ lineno = res.lineno0 + 3
    /\ res.ret.array = <<Num(8), Num(10), Num(14)>>

\* the line is "EXTERNAL u c fmt iprn" with u bound in the registry
C4_IsExternal ==
    /\ Decoded
    /\ WordOf = "EXTERNAL" /\ Len(WordsOf) >= 5
    /\ IntOk(WordsOf[2])
    /\ res.nam0
    /\ IntVal(WordsOf[2]) \in DOMAIN res.units0

\* what get_array did, d being a direct read of N elements with fmt from
\* the source bound to u before the call
C4_Took(u, c, d) ==
    /\ lineno = res.lineno0 + 1
    /\ res.ret.opened = {}
    /\ OthersKept(u)
    /\ units[u].kind = d.obj.kind /\ units[u].pos = d.obj.pos
    /\ d.out # Ok => res.out = d.out
    /\ d.out = Ok =>
          IF NumOk(c, res.dtype)
          THEN res.out = Ok /\ IsScaled(d.iar, c)
          ELSE res.out.exc = "ValueError"

\* C4: get_array on "EXTERNAL u c fmt iprn" with u bound in the unit
\* registry advances the package's own cursor by exactly one record and
\* takes the payload from the source bound to u: that source, and no other
\* unit, is left where a direct read of it with fmt leaves it, the call
\* fails as that read fails, and when that read returns the result is its
\* elements multiplied by c.
C4_ExternalSource ==
    C4_IsExternal =>
        C4_Took(IntVal(WordsOf[2]), WordsOf[3],
                read_array_data(res.units0[IntVal(WordsOf[2])], WordsOf[4],
                                SizeOf, res.dtype))

\* "EXTERNAL 16 2 (3I2) 3" gave 2, 4, 6 from the first record of unit 16,
\* whose position moved past that record, the own cursor moving by one
C4_Witness ==
    /\ C4_IsExternal
    /\ res.out = Ok
    /\ res.ret.array = <<Num(2), Num(4), Num(6)>>
    /\ units[16].pos = 7
    /\ lineno = res.lineno0 + 1

\* the line is "OPEN/CLOSE fname c fmt iprn"
C5_IsOpenClose ==
    /\ Decoded
    /\ WordOf = "OPEN/CLOSE" /\ Len(WordsOf) >= 5

\* C5: get_array on an OPEN/CLOSE control line advances the package's own
\* cursor by exactly one record and leaves the unit registry exactly as
\* it was; it opens the named file and nothing else, and once the call
\* has returned or raised no file is left open.
C5_ScopedFile ==
    C5_IsOpenClose =>
        /\ lineno = res.lineno0 + 1
        /\ units = res.units0
        /\ IF WordsOf[2] \in DOMAIN Disk
           THEN res.ret.opened = {WordsOf[2]}
           ELSE res.ret.opened = {} /\ res.out.exc = "FileNotFoundError"
        /\ res.out.exc # "hang" => res.ret.open = {} /\ fds = {}

\* "OPEN/CLOSE a.dat 2 (3I2) 3" for fewer than three elements opened
\* a.dat, raised the size mismatch, and left nothing open
C5_Witness ==
    /\ C5_IsOpenClose
    /\ res.ret.opened = {"a.dat"}
    /\ res.out = Outcome("ValueError", "expected size")
    /\ fds = {}
    /\ units = res.units0

\* the line fits none of the encodings: a keyword line with too few
\* tokens, a blank line, a non-keyword line of at most 20 characters, a
\* longer one whose first ten columns are not an integer
C6_Malformed ==
    \/ WordOf = "CONSTANT" /\ Len(WordsOf) < 2
    \/ WordOf = "INTERNAL" /\ Len(WordsOf) < 3
    \/ WordOf \in {"EXTERNAL", "OPEN/CLOSE"} /\ Len(WordsOf) < 5
    \/ WordsOf = <<>>
    \/ WordOf \notin Keywords /\ Len(ControlOf) <= 20
    \/ WordOf \notin Keywords /\ Len(ControlOf) > 20
          /\ ~IntOk(Slice(ControlOf, 0, 10))

\* C6 (as claimed): a control line that fits none of the encodings, a
\* blank line included, makes get_array fail with the malformed-control-
\* line error (a ValueError), never with the error kind of end of input
\* (IndexError), and no array is returned.
C6_MalformedControlLine ==
    (Decoded /\ C6_Malformed) =>
        /\ res.out.exc = "ValueError"
        /\ res.out.msg \in {"expecting to find at least 2 items",
                            "expecting to find at least 3 items",
                            "expecting to find at least 5 items",
                            "fixed-format control line not understood",
                            "array control line not understood"}
        /\ res.ret.array = <<>>

\* the line is fixed-format with LOCAT # 0
C7_IsFixedRead == Decoded /\ IsFixed /\ LocatOf # 0

\* the payload was asked of the reader itself: d is a direct read from
\* the record after the control line
C7_FromSelf(d) ==
    /\ res.ret.read = d.out
    /\ res.ret.iar = d.iar
    /\ lineno = d.obj.pos
    /\ units = res.units0

\* the payload was asked of the registry source of unit u: d is a direct
\* read of that source
C7_FromUnit(u, d) ==
    /\ res.ret.read = d.out
    /\ res.ret.iar = d.iar
    /\ lineno = res.lineno0 + 1
    /\ OthersKept(u)
    /\ units[u].kind = d.obj.kind /\ units[u].pos = d.obj.pos

\* C7: on a fixed-format control line with LOCAT # 0 the payload is read
\* from the reader's own source (the records after the control line) when
\* abs(LOCAT) is the package's own unit number or the package has no
\* registry attached; otherwise it is read from the registry source bound
\* to abs(LOCAT), the own cursor moving by one record only, and an
\* unbound abs(LOCAT) raises KeyError.
C7_FixedSourceSelection ==
    C7_IsFixedRead =>
        IF Abs(LocatOf) = parent_nunit \/ ~res.nam0
        THEN C7_FromSelf(read_array_data(
                 Source("self", lines, 0, res.lineno0 + 1),
                 FixedFormat(LocatOf, FmtinOf), SizeOf, res.dtype))
        ELSE IF Abs(LocatOf) \in DOMAIN res.units0
        THEN C7_FromUnit(Abs(LocatOf),
                 read_array_data(res.units0[Abs(LocatOf)],
                                 FixedFormat(LocatOf, FmtinOf), SizeOf, res.dtype))
        ELSE /\ res.out.exc = "KeyError"
             /\ lineno = res.lineno0 + 1
             /\ units = res.units0

\* with the package detached from its registry, a fixed-format line with
\* LOCAT = 16 read its three elements from the reader's next record
C7_Witness ==
    /\ C7_IsFixedRead
    /\ ~res.nam0
    /\ LocatOf = 16
    /\ res.out = Ok
    /\ lineno = res.lineno0 + 2
    /\ units = res.units0
    /\ Len(res.ret.array) = 3

\* the line is fixed-format with LOCAT < 0
C8_IsNegative == Decoded /\ IsFixed /\ LocatOf < 0

\* the payload was asked of a stream src of packed elements holding avail
\* unread bytes: want bytes are requested, the elements after the
\* stream's position are returned, and a short stream fails
C8_RawBytes(src, avail, want) ==
    /\ res.ret.obj.pos = src.pos + Min(want, avail)
    /\ IF avail >= want
       THEN /\ res.ret.read = Ok
            /\ res.ret.iar = SubSeq(src.data, src.pos \div ItemSize + 1,
                                    src.pos \div ItemSize + SizeOf)
            /\ IF NumOk(CnstntOf, res.dtype)
               THEN res.out = Ok /\ IsScaled(res.ret.iar, CnstntOf)
               ELSE res.out.exc = "ValueError"
       ELSE res.ret.read.exc = "ValueError" /\ res.out = res.ret.read

\* C8: on a fixed-format control line with LOCAT < 0 the payload is read
\* as BINARY whatever the format columns hold: from a registry stream of
\* packed elements the call requests N x 4 bytes and returns the N
\* elements at the stream's position times the constant (failing when the
\* stream holds fewer bytes); a text stream fails with TypeError and a
\* source without read() with NotImplementedError; no record is read as
\* text, so the own cursor moves by the control line only.
C8_NegativeLocatBinary ==
    C8_IsNegative =>
        /\ lineno = res.lineno0 + 1
        /\ res.ret.items = <<>>
        /\ IF res.ret.src = "none"
           THEN res.out.exc = "KeyError" /\ Abs(LocatOf) \notin DOMAIN res.units0
           ELSE /\ res.ret.body = "BINARY"
                /\ res.ret.from.kind = "bytes" =>
                      C8_RawBytes(res.ret.from,
                                  Len(res.ret.from.data) * ItemSize
                                      + res.ret.from.extra - res.ret.from.pos,
                                  SizeOf * ItemSize)
                /\ res.ret.from.kind = "text" => res.out.exc = "TypeError"
                /\ res.ret.from.kind \in {"self", "pkg", "data"} =>
                      res.out.exc = "NotImplementedError"

\* a line with LOCAT = -17 whose format columns say (3I2) returned the
\* first three packed elements of unit 17
C8_Witness ==
    /\ C8_IsNegative
    /\ FmtinOf = "(3I2)"
    /\ res.ret.body = "BINARY"
    /\ res.out = Ok
    /\ res.ret.array = <<Num(1), Num(2), Num(3)>>
    /\ units[17].pos = 3 * ItemSize

\* the trimmed contents of the k-th w-character field of a record
FieldOf(line, k, w) == Strip(Slice(line, (k - 1) * w, k * w))

\* the non-blank ones among the first r fields of a record, left to right
FieldsOf(line, r, w) ==
    SelectSeq([k \in 1..r |-> FieldOf(line, k, w)], LAMBDA x : x # "")

RECURSIVE FieldsOfAll(_, _, _)
\* the non-blank fields of each of the records recs, record after record
FieldsOfAll(recs, r, w) ==
    IF recs = <<>> THEN <<>>
    ELSE FieldsOf(Head(recs), r, w) \o FieldsOfAll(Tail(recs), r, w)

RECURSIVE RecordsBetween(_, _, _)
\* the records of text t between the character positions a and b
RecordsBetween(t, a, b) ==
    IF a >= b THEN <<>>
    ELSE <<Slice(t, a, LineEnd(t, a))>> \o RecordsBetween(t, LineEnd(t, a), b)

\* the records the last payload read consumed from its source
Consumed ==
    IF res.ret.from.kind = "self"
    THEN SubSeq(lines, res.ret.from.pos + 1, res.ret.obj.pos)
    ELSE RecordsBetween(res.ret.from.data, res.ret.from.pos, res.ret.obj.pos)

\* the last operation collected a payload under a Fortran format
C9_IsFortran ==
    /\ Decoded
    /\ res.ret.read.exc # "not called"
    /\ res.ret.body \notin {"", "FREE", "BINARY"}
    /\ res.ret.from.kind \in {"self", "text", "tbytes"}

\* what the collection did under (r SYMBOL w) on the records recs
C9_Collected(recs, r, w) ==
    /\ res.ret.items = FieldsOfAll(recs, r, w)
    /\ res.ret.read.exc \in {"none", "ValueError", "IndexError", "hang"}
    /\ res.ret.read.exc \in {"none", "ValueError"} =>
          /\ recs # <<>>
          /\ Len(res.ret.items) >= SizeOf
          /\ Len(FieldsOfAll(SubSeq(recs, 1, Len(recs) - 1), r, w)) < SizeOf
    /\ res.ret.read.exc \in {"IndexError", "hang"} =>
          Len(res.ret.items) < SizeOf
    /\ res.ret.read = Ok <=>
          /\ Len(res.ret.items) = SizeOf
          /\ \A i \in 1..Len(res.ret.items) : NumOk(res.ret.items[i], res.dtype)

\* C9: under a Fortran format (r SYMBOL w) the tokens collected are, for
\* each record consumed in turn, the trimmed non-blank contents of its
\* first r consecutive w-character fields, a field being cut at the
\* record's end; records are consumed until the tokens reach the element
\* count and no further (or the source runs out); a short record or a
\* blank field raises nothing: the read fails only when the source runs
\* out, a token does not convert, or the count is overshot.
C9_FortranFieldExtraction ==
    C9_IsFortran =>
        C9_Collected(Consumed,
                     IF ReFmtin(Upper(res.ret.fmtin)).rep = "" THEN 1
                     ELSE NatVal(ReFmtin(Upper(res.ret.fmtin)).rep),
                     NatVal(ReFmtin(Upper(res.ret.fmtin)).w))

\* under (3I2) the record " 4 5", shorter than three fields, gave two
\* tokens and the record "   7", whose first field is blank, gave one
C9_Witness ==
    /\ C9_IsFortran
    /\ res.ret.body = "3I2"
    /\ Consumed = <<" 4 5\n", "   7\n">>
    /\ res.ret.items = <<"4", "5", "7">>
    /\ res.out = Ok

(***************************************************************************)
(* Properties of the item reader, under specification SpecItems.           *)
(***************************************************************************)
\* the last operation was get_items(num_items=N, multiline=False) on a
\* cursor that was not at the end
C10_IsOneLine ==
    /\ res.op = "get_items"
    /\ ~res.multiline
    /\ res.lineno0 < Len(lines)

\* the "zero" of a format
ZeroOf(fmt) == IF fmt = "s" THEN "" ELSE Num(0)

\* what get_items returned for the tokens toks of the record
C10_Returned(toks, N, fmt) ==
    IF \A i \in 1..Min(N, Len(toks)) : ConvOk(toks[i], fmt)
    THEN /\ res.out = Ok
         /\ Len(res.items) = N
         /\ \A i \in 1..N :
               res.items[i] = IF i <= Len(toks) THEN conv(toks[i], fmt)
                              ELSE ZeroOf(fmt)
    ELSE res.out.exc = "ValueError"

\* C10: get_items(num_items=N, multiline=False) on a cursor that is not
\* at the end consumes exactly one record; when the first min(N, k) of
\* the record's k tokens convert to the format it returns exactly N
\* items, those tokens followed by N - k zero values ('' for strings, 0
\* for numbers) when k < N, so a short record does not raise; a kept token
\* that does not convert raises ValueError.
C10_OneLinePadding ==
    C10_IsOneLine =>
        /\ lineno = res.lineno0 + 1
        /\ C10_Returned(Split(lines[res.lineno0 + 1]), res.num_items, res.fmt)

\* the record "7" read as three integers gave 7, 0, 0
C10_Witness ==
    /\ C10_IsOneLine
    /\ res.num_items = 3 /\ res.fmt = "i"
    /\ res.out = Ok
    /\ res.items = <<Num(7), Num(0), Num(0)>>

RECURSIVE WordsBetween(_, _)
\* the tokens of records a+1 .. b of the reader's lines, in order
WordsBetween(a, b) ==
    IF b <= a THEN <<>> ELSE WordsBetween(a, b - 1) \o Split(lines[b])

\* the last operation was get_items(num_items=N, multiline=True), N > 0
C11_IsMultiline ==
    /\ res.op = "get_items"
    /\ res.multiline
    /\ res.num_items > 0

\* R is the smallest number of records after the start whose tokens
\* reach N
C11_Needs(R) ==
    /\ res.lineno0 + R <= Len(lines)
    /\ Len(WordsBetween(res.lineno0, res.lineno0 + R)) >= res.num_items
    /\ Len(WordsBetween(res.lineno0, res.lineno0 + R - 1)) < res.num_items

\* what get_items returned when the records holding toks were needed
C11_Returned(R, toks, N, fmt) ==
    /\ lineno = res.lineno0 + R
    /\ IF \A i \in 1..N : ConvOk(toks[i], fmt)
       THEN /\ res.out = Ok
            /\ Len(res.items) = N
            /\ \A i \in 1..N : res.items[i] = conv(toks[i], fmt)
       ELSE res.out.exc = "ValueError"

\* C11: get_items(num_items=N, multiline=True) with N > 0 consumes the
\* smallest number R of consecutive records whose combined token count
\* reaches N and returns exactly the first N of those tokens (converted
\* to the format; a token that does not convert raises ValueError); if
\* the remaining records hold fewer than N tokens it raises the end-of-
\* input error with the cursor at the end and returns nothing, padded or
\* not.
C11_MultilineItems ==
    C11_IsMultiline =>
        /\ \A R \in 0..Len(lines) :
              C11_Needs(R) =>
                  C11_Returned(R, WordsBetween(res.lineno0, res.lineno0 + R),
                               res.num_items, res.fmt)
        /\ (~\E R \in 0..Len(lines) : C11_Needs(R)) =>
              /\ res.out = Outcome("IndexError", "Unexpected end of file")
              /\ res.items = <<>>
              /\ lineno = Len(lines)

\* three string items were taken from the two records "100 ignore" and
\* "200 -2.5", the fourth token being left out
C11_Witness ==
    /\ C11_IsMultiline
    /\ res.lineno0 = 0 /\ lineno = 2
    /\ res.out = Ok
    /\ res.items = <<"100", "ignore", "200">>

ReaderOps ==
    { "nextline", "get_items", "get_named_items", "read_named_items",
      "read_text", "read_options", "read_parameter", "get_array" }

\* C13: after any reader operation (nextline, get_items, get_named_items,
\* read_named_items, read_text, read_options, read_parameter, get_array),
\* returned or raised, lineno is not smaller than it was when the operation
\* started; and the rewind of read_text and read_parameter never takes
\* lineno below that start: it gives back a record the same call read.
C13_LinenoNeverDecreases ==
    res.op \in ReaderOps =>
        /\ lineno >= res.lineno0
        /\ res.op \in {"read_text", "read_parameter"} => res.low = res.lineno0

\* a read_parameter call, made after the cursor had advanced, that gave its
\* record back
C13_Witness ==
    /\ res.op = "read_parameter"
    /\ res.out = Ok
    /\ res.lineno0 > 0
    /\ res.lineno0 < Len(lines)
    /\ lineno = res.lineno0

\* a record that starts with the comment marker
C14_IsComment(rec) == Len(rec) >= 1 /\ SubSeq(rec, 1, 1) = "#"

\* the positions, after the marker, of the characters of rec that are not
\* blank
C14_Inked(rec) == {i \in 2..Len(rec) : ~IsSpace(SubSeq(rec, i, i))}

\* a comment record without its marker and without the blanks around what
\* follows it
C14_Stripped(rec) ==
    IF C14_Inked(rec) = {} THEN ""
    ELSE SubSeq(rec,
                CHOOSE i \in C14_Inked(rec) : \A j \in C14_Inked(rec) : i <= j,
                CHOOSE i \in C14_Inked(rec) : \A j \in C14_Inked(rec) : i >= j)

\* C14: read_text called at lineno p returns without raising; the records
\* p+1..lineno all start with "#", the record after lineno, if there is
\* one, does not (it is not consumed), and parent.text holds the stripped
\* text of exactly those records, in order.  A run of no records and a run
\* up to the last record are both of this form.
C14_ReadTextRun ==
    res.op = "read_text" =>
        /\ res.out = Ok
        /\ lineno >= res.lineno0
        /\ lineno <= Len(lines)
        /\ \A i \in (res.lineno0 + 1)..lineno : C14_IsComment(lines[i])
        /\ lineno < Len(lines) => ~C14_IsComment(lines[lineno + 1])
        /\ Len(res.text) = lineno - res.lineno0
        /\ \A i \in 1..Len(res.text) :
              res.text[i] = C14_Stripped(lines[res.lineno0 + i])

\* read_text collected two comment records and stopped before a third
\* record that is not a comment
C14_Witness ==
    /\ res.op = "read_text"
    /\ Len(res.text) = 2
    /\ res.text[1] = "Text 1"
    /\ lineno = res.lineno0 + 2
    /\ lineno < Len(lines)

\* the last operation was a read_parameter call that found a record to peek
C15_Peeked == res.op = "read_parameter" /\ res.lineno0 < Len(lines)

\* the record read_parameter peeked, and its tokens
C15_Record == lines[res.lineno0 + 1]

C15_Tokens == Split(C15_Record)

\* the record holds an integer token for every name after its first token
C15_HasIntegers ==
    /\ Len(C15_Tokens) >= Len(res.names) + 1
    /\ \A i \in 1..Len(res.names) : IntOk(C15_Tokens[i + 1])

\* C15: read_parameter peeks one record.  If the record starts with
\* PARAMETER in any letter case, the cursor advances by exactly one and,
\* the record holding an integer token per name, each name is bound to the
\* integer token that follows the keyword, in order; otherwise every name
\* is bound to 0 and the cursor stays where it was, so the next read
\* returns that record.
C15_ParameterPeek ==
    C15_Peeked =>
        IF StartsWith(Upper(C15_Record), "PARAMETER")
        THEN /\ lineno = res.lineno0 + 1
             /\ C15_HasIntegers =>
                   /\ res.out = Ok
                   /\ res.attrs = [i \in 1..Len(res.names) |->
                                     <<res.names[i], Num(IntVal(C15_Tokens[i + 1]))>>]
        ELSE /\ res.out = Ok
             /\ lineno = res.lineno0
             /\ nextline(lines, lineno).line = C15_Record
             /\ res.attrs = [i \in 1..Len(res.names) |-> <<res.names[i], Num(0)>>]

\* the tokens of the record read_options read, each in upper case
C16_Tokens ==
    LET toks == Split(lines[res.lineno0 + 1])
    IN  [i \in 1..Len(toks) |-> Upper(toks[i])]

\* opt is one of the package's declared options
C16_Declared(opt) == \E i \in 1..Len(valid_options) : valid_options[i] = opt

\* C16: read_options consumes exactly one record and stores its tokens, in
\* upper case, as the options of the package; on a package that declares
\* valid_options it flags exactly the tokens that are not declared; the
\* record is not rejected: without auxiliary processing the call returns.
C16_OptionsFlagged ==
    (res.op = "read_options" /\ res.lineno0 < Len(lines)) =>
        /\ lineno = res.lineno0 + 1
        /\ res.set
        /\ res.Options = C16_Tokens
        /\ ~res.process_aux => res.out = Ok
        /\ res.has_valid_options =>
              res.warned = SelectSeq(C16_Tokens, LAMBDA opt : ~C16_Declared(opt))

(***************************************************************************)
(* Properties of the Name File reader, stated on the Modflow object (mf)   *)
(* and the events of its last read, under specification SpecNam.           *)
(***************************************************************************)
\* the positions in the log of the events of kind ev
EventsOf(ev) == {i \in 1..Len(mf.log) : mf.log[i].ev = ev}

\* the first registration of the unit registered by event i
FirstOf(i) ==
    CHOOSE j \in EventsOf("register") :
        /\ mf.log[j].nunit = mf.log[i].nunit
        /\ \A k \in EventsOf("register") :
              mf.log[k].nunit = mf.log[i].nunit => j <= k

\* C17: during a read a unit number, once bound in the unit registry,
\* keeps its binding: after the read the registry maps every number an
\* entry registered to the object created for the first entry that used
\* that number.
C17_FirstBindingKept ==
    res.op = "read" =>
        \A i \in EventsOf("register") :
            /\ HasKey(mf._nunit, mf.log[i].nunit)
            /\ Lookup(mf._nunit, mf.log[i].nunit).id = mf.log[FirstOf(i)].id

\* the lines of the Name File of the last read that are entries: neither
\* blank nor comments
EntryLines ==
    {ln \in 1..Len(res.nam) :
        RStrip(res.nam[ln]) # "" /\ ~StartsWith(RStrip(res.nam[ln]), "#")}

\* every entry of the Name File was registered: none stopped the read
AllRegistered ==
    /\ EventsOf("rejected") = {}
    /\ Cardinality(EventsOf("register")) = Cardinality(EntryLines)

\* the registrations of entries whose Ftype is ftype
EntriesOf(ftype) == {i \in EventsOf("register") : mf.log[i].name = ftype}

\* the registration of the grid-definition package: the last DIS entry, or
\* with no DIS entry the last DISU entry
GridEntry ==
    LET of == IF EntriesOf("DIS") # {} THEN EntriesOf("DIS") ELSE EntriesOf("DISU")
    IN  CHOOSE i \in of : \A j \in of : j <= i

\* the names of _packages from the i-th on, without the grid package's
RECURSIVE OthersFrom(_, _)
OthersFrom(i, grid) ==
    IF i > Len(mf._packages) THEN <<>>
    ELSE IF mf._packages[i] = grid THEN OthersFrom(i + 1, grid)
    ELSE <<mf._packages[i]>> \o OthersFrom(i + 1, grid)

\* the attribute names of the decode events, in the order of the log
RECURSIVE DecodedFrom(_)
DecodedFrom(i) ==
    IF i > Len(mf.log) THEN <<>>
    ELSE IF mf.log[i].ev = "decode" THEN <<mf.log[i].name>> \o DecodedFrom(i + 1)
    ELSE DecodedFrom(i + 1)

\* C18: in a read no package is decoded before every entry is registered;
\* when all entries are registered and one of them is DIS or DISU, the
\* grid-definition package (DIS, else DISU) is the first object decoded and
\* is decoded once; a read that returns has decoded, after it, every other
\* package of the package list once, in list order, the packages without a
\* decode included as skipped; no DATA object is decoded.
C18_DecodeOrder ==
    res.op = "read" =>
        /\ \A d \in EventsOf("decode"), r \in EventsOf("register") : r < d
        /\ (AllRegistered /\ EntriesOf("DIS") \cup EntriesOf("DISU") # {}) =>
              /\ EventsOf("decode") # {}
              /\ \A d \in EventsOf("decode") :
                    (\A e \in EventsOf("decode") : d <= e)
                        <=> mf.log[d].id = mf.log[GridEntry].id
        /\ res.out = Ok =>
              /\ EventsOf("decode") # {}
              /\ Tail(DecodedFrom(1)) = OthersFrom(1, DecodedFrom(1)[1])
        /\ \A d \in EventsOf("decode"), r \in EventsOf("register") :
              mf.log[d].id = mf.log[r].id => ~StartsWith(mf.log[r].name, "DATA")

\* C19: when every entry is registered and the object then holds neither
\* a dis nor a disu package, the read fails with an error the program
\* raises for the missing package (not the interpreter's error for a local
\* variable read before assignment), and no decode is started.
C19_MissingGridPackage ==
    (res.op = "read" /\ EventsOf("rejected") = {} /\ DisMode(mf) = "") =>
        /\ res.out.exc \notin {"none", "UnboundLocalError"}
        /\ EventsOf("decode") = {}

\* C20: when the decode of a package other than the grid-definition
\* package raises a decode error, every remaining package of the package
\* list is still decoded: the decodes after the grid package's are those of
\* all the other packages, in list order.
C20_SiblingsStillDecoded ==
    (res.op = "read" /\ EventsOf("failed") # {}) =>
        Tail(DecodedFrom(1)) = OthersFrom(1, DecodedFrom(1)[1])

\* the items of line ln of the Name File of the last read
ItemsOf(ln) == Split(RStrip(res.nam[ln]))

\* the loop over the lines came to line ln: no earlier line stopped the read
Reached(ln) == \A k \in EventsOf("rejected") : mf.log[k].id[2] >= ln

\* line ln is an entry the loop came to, with its three items and a unit
\* number
EntryAt(ln) ==
    /\ ln \in EntryLines
    /\ Reached(ln)
    /\ Len(ItemsOf(ln)) >= 3
    /\ IntOk(ItemsOf(ln)[2])

\* an event of kind ev was logged for the entry of line ln
EventOn(ev, ln) == \E i \in EventsOf(ev) : mf.log[i].id = <<mf.reads, ln>>

\* no file of the directory has the name fname, in any spelling of its case
NotOnDisk(fname) == \A i \in 1..Len(DiskNames) : Lower(DiskNames[i]) # Lower(fname)

\* C21: an entry whose file is found neither as written nor in another
\* spelling of its case is flagged and still registered: it is bound in
\* the unit registry and, when its tag is a package tag, its attribute
\* name is in the package list; the entry does not stop the read.
C21_UnresolvedStillRegistered ==
    res.op = "read" =>
        \A ln \in 1..Len(res.nam) :
            (EntryAt(ln) /\ NotOnDisk(ItemsOf(ln)[3])) =>
                /\ EventOn("flagged", ln)
                /\ EventOn("register", ln)
                /\ HasKey(mf._nunit, IntVal(ItemsOf(ln)[2]))
                /\ ~StartsWith(Upper(ItemsOf(ln)[1]), "DATA") =>
                      InList(mf._packages,
                             Lower(ClassOf(Upper(ItemsOf(ln)[1]), mf.classes)))
                /\ ~EventOn("rejected", ln)

\* the object the entry of line ln is bound to in the unit registry is the
\* one created for that line
BoundAt(ln) ==
    /\ EntryAt(ln)
    /\ HasKey(mf._nunit, IntVal(ItemsOf(ln)[2]))
    /\ Lookup(mf._nunit, IntVal(ItemsOf(ln)[2])).id = <<mf.reads, ln>>

\* the object created for the entry of line ln
ObjectAt(ln) == Lookup(mf._nunit, IntVal(ItemsOf(ln)[2]))

\* C22: an entry whose file exists as written keeps its name and path as
\* written; an entry whose file does not exist as written, while the
\* directory holds a file of the same name in another spelling of its
\* case, has the name and the path of that file.
C22_NameResolution ==
    res.op = "read" =>
        \A ln \in 1..Len(res.nam) :
            BoundAt(ln) =>
                /\ isfile(ItemsOf(ln)[3]) =>
                      /\ ObjectAt(ln).fname = ItemsOf(ln)[3]
                      /\ ObjectAt(ln).fpath = ItemsOf(ln)[3]
                /\ (~isfile(ItemsOf(ln)[3]) /\ ~NotOnDisk(ItemsOf(ln)[3])) =>
                      /\ isfile(ObjectAt(ln).fname)
                      /\ Lower(ObjectAt(ln).fname) = Lower(ItemsOf(ln)[3])
                      /\ ObjectAt(ln).fpath = ObjectAt(ln).fname

(***************************************************************************)
(* Termination of the array decoder, under specification Spec.             *)
(***************************************************************************)
\* C23: every get_array call returns or raises, whatever source its
\* payload comes from: no call is left collecting for ever from a source
\* that holds fewer elements than the array needs.
C23_DecodeTerminates ==
    res.op = "get_array" => res.out.exc # "hang"

(***************************************************************************)
(* The label of a control line, under specification Spec.                  *)
(***************************************************************************)
\* the last operation was a get_array call that returned
Returned == Decoded /\ res.out = Ok

\* the control line holds a "#"
C25_HasHash == HasChar(ControlOf, "#")

\* the text after the first "#" of the control line
C25_AfterHash ==
    Strip(Slice(ControlOf, FindChar(ControlOf, "#") + 1, Len(ControlOf)))

\* the fields a keyword line is recognised by, the keyword included
C25_Fields ==
    IF WordOf = "CONSTANT" THEN 2 ELSE IF WordOf = "INTERNAL" THEN 4 ELSE 5

RECURSIVE C25_Rest(_, _)
\* what is left of s after its first k tokens
C25_Rest(s, k) ==
    IF k = 0 THEN Strip(s)
    ELSE C25_Rest(Slice(LStrip(s), TokenEnd(LStrip(s), 0), Len(s)), k - 1)

\* the control line has a label of its own encoding: tokens after the
\* recognised fields of a keyword line, or columns 51 on of a fixed-format
\* line
C25_Applies ==
    IF WordOf \in Keywords THEN Len(WordsOf) > C25_Fields
    ELSE IsFixed /\ Len(ControlOf) > 50

\* that label
C25_Specific ==
    IF WordOf \in Keywords THEN C25_Rest(ControlOf, C25_Fields)
    ELSE Strip(Slice(ControlOf, 50, Len(ControlOf)))

RaisedInDecode == res.op = "decode" /\ res.raw.exc \notin {"none", "hang"}

\* C24: an error raised inside a package's decode leaves the decode with
\* the same error kind, and its message carries the package tag, the
\* source name, and the line number and data-set label the reader had
\* when the error occurred.
C24_EnrichedSameKind ==
    RaisedInDecode =>
        /\ res.out.exc = res.raw.exc
        /\ FindSub(res.out.msg,
                   Location(ParentClass, fp_fname, lineno, data_set_num), 0) >= 0


(***************************************************************************)
(* The package list of a Modflow object, under specification SpecAttr.     *)
(***************************************************************************)
\* Modflow.__len__ and Modflow.__iter__
PackageCount(m) == Len(m._packages)

PackageNames(m) == m._packages

\* every listed name is an attribute holding a package of that attribute
\* name, and no name is listed twice
ListSound(m) ==
    /\ \A i \in 1..PackageCount(m) :
          /\ HoldsPackage(m, PackageNames(m)[i])
          /\ AttrName(Lookup(m.attrs, PackageNames(m)[i])) = PackageNames(m)[i]
    /\ \A i, j \in 1..PackageCount(m) :
          PackageNames(m)[i] = PackageNames(m)[j] => i = j

\* the last operation was a setattr, append or delattr
Attributed == res.op \in {"setattr", "append", "delattr"}

\* a package was put under its own attribute name
PutOwnName ==
    /\ res.op \in {"setattr", "append"}
    /\ res.out = Ok
    /\ IsPackage(res.value)
    /\ res.name = AttrName(res.value)

\* setattr of a package under a name that is not its attribute name
ForeignName ==
    res.op = "setattr" /\ IsPackage(res.value) /\ res.name # AttrName(res.value)

\* the name was set as on any object: it starts with "_" or was an
\* attribute already, and held no package
PlainName ==
    /\ HasKey(res.m0.attrs, res.name) \/ StartsWith(res.name, "_")
    /\ ~HoldsPackage(res.m0, res.name)

\* what holds after every setattr, append and delattr, whatever a setattr
\* under a foreign name does: the list is sound; a failure leaves it as it
\* was; a package put under its own name keeps its place when listed and
\* goes to the end when not; delattr removes exactly the name; append of a
\* present name or of a non-package raises ValueError
ListKept ==
    /\ ListSound(mf)
    /\ Attributed =>
          /\ res.out.exc # "none" => PackageNames(mf) = PackageNames(res.m0)
          /\ PutOwnName =>
                /\ Lookup(mf.attrs, res.name) = res.value
                /\ PackageNames(mf) =
                      IF InList(PackageNames(res.m0), res.name)
                      THEN PackageNames(res.m0)
                      ELSE Append(PackageNames(res.m0), res.name)
          /\ (res.op = "delattr" /\ res.out = Ok) =>
                PackageNames(mf) =
                    SelectSeq(PackageNames(res.m0), LAMBDA n : n # res.name)
          /\ (res.op = "append"
                /\ (~IsPackage(res.value) \/ HasKey(res.m0.attrs, res.name))) =>
                res.out.exc = "ValueError"

AskedUnit == Decoded /\ res.ret.src = "unit"

\* C27: a get_array call that reads from a unit of the registry starts at
\* the position the calls before it left in the registry, never moves the
\* position back, leaves in the registry the position where it stopped
\* and touches no other unit; the tokens of a free-format read are those
\* of the text between the two positions.
C27_ConsecutiveBlocks ==
    AskedUnit =>
        /\ res.ret.from = res.units0[res.ret.unit]
        /\ units[res.ret.unit] = res.ret.obj
        /\ res.ret.obj.pos >= res.ret.from.pos
        /\ res.ret.obj.data = res.ret.from.data
        /\ \A u \in DOMAIN units \ {res.ret.unit} : units[u] = res.units0[u]
        /\ (res.ret.read = Ok /\ res.ret.body = "FREE") =>
              res.ret.items =
                  Split(Slice(res.ret.from.data, res.ret.from.pos, res.ret.obj.pos))

\* the second of two arrays of three read from unit 16 starts after the
\* first record and holds the second
C27_Witness ==
    /\ AskedUnit
    /\ res.ret.unit = 16
    /\ res.out = Ok
    /\ res.ret.from.pos = 7
    /\ res.ret.obj.pos = 14
    /\ res.ret.items = <<"4", "5", "6">>


(***************************************************************************)
(* The range of the cursor, under specification SpecReader.                *)
(***************************************************************************)
\* C28: after any sequence of reader operations the cursor lies between 0
\* and the number of lines, it did not leave that range during a
\* read_text or read_parameter call, check_end does not raise, and not_eof
\* is false exactly when the cursor equals the number of lines.
C28_CursorInRange ==
    /\ 0 <= lineno
    /\ lineno <= Len(lines)
    /\ res.op \in {"read_text", "read_parameter"} => 0 <= res.low
    /\ check_end(lines, lineno) = Ok
    /\ ~not_eof(lines, lineno) <=> lineno = Len(lines)

\* a read was tried at the end of a file of two lines: it raised, and the
\* cursor is at the end
C28_Witness ==
    /\ Len(lines) = 2
    /\ lineno = Len(lines)
    /\ res.op # "none"
    /\ res.lineno0 = Len(lines)
    /\ res.out.exc = "IndexError"
    /\ ~not_eof(lines, lineno)


(***************************************************************************)
(* NotImplementedError in the loop over the package list, under SpecNam.   *)
(***************************************************************************)
\* the decodes started by the loop over the package list: all but the
\* first decode, which is the grid package's
LoopDecodes ==
    {d \in EventsOf("decode") : \E e \in EventsOf("decode") : e < d}

\* the package decode event d is about
PackageOf(d) == Lookup(mf.attrs, mf.log[d].name)

\* the names the loop has still to visit after the package of event d
RestAfter(d) ==
    OthersFrom((CHOOSE k \in 1..Len(mf._packages) :
                    mf._packages[k] = mf.log[d].name) + 1,
               DecodedFrom(1)[1])

\* after event d and its skip the loop went on: to the end of the list and
\* of the read, or to the next package, whose pass starts a decode unless
\* its grid property is set first
WentOn(d) ==
    IF RestAfter(d) = <<>> THEN res.out = Ok
    ELSE \/ HasDisProperty(Lookup(mf.attrs, RestAfter(d)[1]))
         \/ /\ d + 2 <= Len(mf.log)
            /\ mf.log[d + 2].ev = "decode"
            /\ mf.log[d + 2].name = RestAfter(d)[1]

\* C29: in the loop of Modflow.read, a package whose read raises
\* NotImplementedError, be it for a decode that is not implemented or
\* part-way through an implemented decode, is logged as skipped and the
\* loop goes on to the next package; a read that raises any other error
\* ends the loop and the read with an error.
C29_NotImplementedSkipped ==
    res.op = "read" =>
        \A d \in LoopDecodes :
            IF ReadRaises(PackageOf(d), mf).exc = "NotImplementedError"
            THEN /\ d + 1 <= Len(mf.log)
                 /\ mf.log[d + 1].ev = "skip"
                 /\ mf.log[d + 1].id = mf.log[d].id
                 /\ WentOn(d)
            ELSE ReadRaises(PackageOf(d), mf).exc # "none" =>
                    /\ res.out.exc # "none"
                    /\ d + 1 = Len(mf.log)
                    /\ mf.log[d + 1].ev = "failed"


(***************************************************************************)
(* A package attribute left by an earlier read, under SpecNam.             *)
(***************************************************************************)
\* the last read found a dis attribute on the object and registered every
\* entry of a Name File of one line or more that has no DIS and no DISU
\* entry
StaleGrid ==
    /\ res.op = "read"
    /\ HasKey(res.attrs0, "dis")
    /\ Len(res.nam) > 0
    /\ EventsOf("rejected") = {}
    /\ EntriesOf("DIS") \cup EntriesOf("DISU") = {}

\* C30: a read starts from an empty package list and an empty unit
\* registry, so that both hold objects of this read only, but it keeps the
\* package attributes: when a dis attribute is left from before and the
\* Name File has neither DIS nor DISU, the read does not fail for a
\* missing grid package; the first object it decodes is the dis object
\* left on the object, which is not in the package list.
C30_StaleGridDecoded ==
    res.op = "read" =>
        /\ \A i \in 1..Len(mf._nunit) : mf._nunit[i][2].id[1] = mf.reads
        /\ \A i \in 1..Len(mf._packages) :
              Lookup(mf.attrs, mf._packages[i]).id[1] = mf.reads
        /\ StaleGrid =>
              /\ EventsOf("error") = {}
              /\ res.out.exc # "UnboundLocalError"
              /\ EventsOf("decode") # {}
              /\ \A d \in EventsOf("decode") :
                    (\A e \in EventsOf("decode") : d <= e) =>
                        /\ mf.log[d].name = "dis"
                        /\ mf.log[d].id = Lookup(res.attrs0, "dis").id
              /\ ~InList(mf._packages, "dis")
              /\ Lookup(mf.attrs, "dis") = Lookup(res.attrs0, "dis")

\* a second read, of a Name File with one LPF entry, decoded the DIS
\* object the first read had registered, and returned
C30_Witness ==
    /\ StaleGrid
    /\ mf.reads = 2
    /\ res.out = Ok
    /\ Lookup(mf.attrs, "dis").id[1] = 1
    /\ mf._packages = <<"lpf">>
    /\ mf.log[CHOOSE d \in EventsOf("decode") :
                  \A e \in EventsOf("decode") : d <= e].id[1] = 1

=============================================================================
